---- MODULE Spec2Model ----
(***************************************************************************)
(* Model of the natural-language command layer of the user-management      *)
(* application: the streaming chat route (src/app/api/ai/chat/route.ts),   *)
(* its non-streaming predecessor (src/unnamed/part_000), the tool handlers *)
(* handleUpdate / handleDelete / handleCreate and the record store they    *)
(* use through the User model (src/models/User.ts).                        *)
(*                                                                         *)
(* Strings that the code inspects (names, emails, name queries) are        *)
(* sequences of one-character strings.  Strings that the code only builds  *)
(* (tool outcomes, error texts) are records [text, args]: the template of  *)
(* the string and the values interpolated into it.                         *)
(***************************************************************************)
EXTENDS Integers, Sequences, FiniteSets, TLC

(***************************************************************************)
(* Bounds of the model.                                                    *)
(***************************************************************************)
\* largest number of tool invocations in the first model response
MaxTools == 2
\* largest number of chunks the final model stream yields
MaxChunks == 1
\* largest number of storage calls of the tool handlers that throw in one turn
MaxFaults == 1

(***************************************************************************)
(* Strings.                                                                *)
(***************************************************************************)
UpperLetters == <<"A", "B", "C", "D", "E", "F", "G", "H", "I", "J", "K", "L", "M", "N", "O", "P", "Q", "R", "S", "T", "U", "V", "W", "X", "Y", "Z">>

LowerLetters == <<"a", "b", "c", "d", "e", "f", "g", "h", "i", "j", "k", "l", "m", "n", "o", "p", "q", "r", "s", "t", "u", "v", "w", "x", "y", "z">>

Range(f) == {f[k] : k \in DOMAIN f}

\* String.prototype.toLowerCase on one character
LowerChar(c) ==
  IF c \in Range(UpperLetters)
  THEN LowerLetters[CHOOSE k \in DOMAIN UpperLetters : UpperLetters[k] = c]
  ELSE c

\* String.prototype.toUpperCase on one character
UpperChar(c) ==
  IF c \in Range(LowerLetters)
  THEN UpperLetters[CHOOSE k \in DOMAIN LowerLetters : LowerLetters[k] = c]
  ELSE c

\* toLowerCase on a string
Lower(s) == [k \in 1..Len(s) |-> LowerChar(s[k])]

\* one pattern character of a $regex with $options "i" against one character
\* of the subject: "." matches any character, any other character matches
\* itself without regard to case
RegexCharMatch(p, c) == p = "." \/ LowerChar(p) = LowerChar(c)

\* { name: { $regex: q, $options: "i" } }: the pattern is unanchored, so it
\* matches when it matches at some offset of the name
RegexMatch(q, name) ==
  \E off \in 0..(Len(name) - Len(q)) :
    \A k \in 1..Len(q) : RegexCharMatch(q[k], name[off + k])

\* An optional value is <<>> when absent and <<v>> when present.
None == <<>>
Some(v) == <<v>>

\* JavaScript truthiness of an optional string: undefined and "" are falsy
Truthy(o) == o # None /\ o[1] # <<>>

(***************************************************************************)
(* The record store (the User collection, src/models/User.ts).             *)
(***************************************************************************)
NoRec == [name |-> <<>>, email |-> <<>>, age |-> None, role |-> <<>>, department |-> <<>>, live |-> FALSE]

Rec(n, e, a, r, d) == [name |-> n, email |-> e, age |-> a, role |-> r, department |-> d, live |-> TRUE]

\* the ids a store can hold: the seeded records and one per created record
Ids == 1..(2 + MaxTools)

LiveIds(st) == {id \in Ids : st[id].live}

Developer == <<"D", "e", "v", "e", "l", "o", "p", "e", "r">>

Admin == <<"A", "d", "m", "i", "n">>

Sales == <<"S", "a", "l", "e", "s">>

DarylTanner == <<"D", "T">>
DarylSmith == <<"D", "S">>

EmptyStore == [id \in Ids |-> NoRec]

\* two records share the first name, so that a name query can match zero,
\* one or two records
SeedStore ==
  [id \in Ids |->
     CASE id = 1 -> Rec(DarylTanner, <<"x">>, Some(52), Developer, Sales)
       [] id = 2 -> Rec(DarylSmith, <<"y">>, Some(41), Admin, Sales)
       [] OTHER -> NoRec]

SeedStores == {EmptyStore, SeedStore}

\* the ids of a set, in ascending order (the order find returns documents in)
RECURSIVE SortedIds(_)
SortedIds(S) ==
  IF S = {} THEN <<>>
  ELSE LET m == CHOOSE x \in S : \A y \in S : x <= y
       IN <<m>> \o SortedIds(S \ {m})

\* the email setter of the schema (lowercase: true); Mongoose applies the
\* setters of a path to documents, to updates and to query filters
EmailSetter(e) == Lower(e)

\* FindUsers comparing the email of the query as it was given
FindUsersCaseSensitive(st, nameQuery, email) ==
  IF Truthy(email)
  THEN SortedIds({id \in LiveIds(st) : st[id].email = email[1]})
  ELSE SortedIds({id \in LiveIds(st) : RegexMatch(nameQuery, st[id].name)})

\* User.find(query) of handleUpdate / handleDelete
FindUsers(st, nameQuery, email) ==
  IF Truthy(email)
  THEN SortedIds({id \in LiveIds(st) : st[id].email = EmailSetter(email[1])})
  ELSE SortedIds({id \in LiveIds(st) : RegexMatch(nameQuery, st[id].name)})

\* the validators of the schema, run on the paths an insert or an update
\* sets: name and email are required, age has min 0
ValidationError(fields, isCreate) ==
  IF (isCreate \/ fields.name # None) /\ ~Truthy(fields.name) THEN "Name is required"
  ELSE IF (isCreate \/ fields.email # None) /\ ~Truthy(fields.email) THEN "Email is required"
  ELSE IF fields.age # None /\ fields.age[1] < 0 THEN "Age must be a positive number"
  ELSE ""

\* the unique index on email
DuplicateEmail(st, fields, self) ==
  /\ fields.email # None
  /\ \E id \in LiveIds(st) \ self : st[id].email = EmailSetter(fields.email[1])

\* the document that results from setting `fields` on `r`
ApplyFields(r, fields) ==
  [r EXCEPT !.name = IF fields.name # None THEN fields.name[1] ELSE @,
            !.email = IF fields.email # None THEN EmailSetter(fields.email[1]) ELSE @,
            !.age = IF fields.age # None THEN fields.age ELSE @]

(***************************************************************************)
(* Outcome strings.                                                        *)
(***************************************************************************)
Text(t, a) == [text |-> t, args |-> a]

\* the names of the found users, as users.map(u => u.name).join(", ") lists them
NamesOf(st, ids) == [k \in 1..Len(ids) |-> st[ids[k]].name]

\* the ToolOutcome a handler's return string stands for
OutcomeTag(out) ==
  CASE out.text \in {"Success: Updated", "Success: Deleted user", "Success: Created user"} -> "Success"
    [] out.text = "Error: No user found matching" -> "NotFound"
    [] out.text = "Error: Multiple users found" -> "Ambiguous"
    [] OTHER -> "Failure"

(***************************************************************************)
(* Requests and model responses: the inputs of a turn.                     *)
(***************************************************************************)
\* the turns of the request's history: their roles ("system" stands for any
\* role that is neither user nor assistant)
Histories == {<<"user", "assistant", "system">>}

\* request bodies: message is a sequence of words, "" when it is missing
ShowDevelopers ==
  << <<"S", "h", "o", "w">>,
     <<"d", "e", "v", "e", "l", "o", "p", "e", "r", "s">>,
     <<"i", "n">>,
     <<"S", "a", "l", "e", "s">>,
     <<"w", "i", "t", "h">>,
     <<"a", "g", "e">>,
     <<"m", "a", "x">>,
     <<"4", "0">>,
     <<"s", "o", "r", "t", "e", "d">>,
     <<"b", "y">>,
     <<"a", "g", "e">>,
     <<"d", "e", "s", "c">> >>

Messages == {<<>>, ShowDevelopers}

Fields(n, e, a) == [name |-> n, email |-> e, age |-> a]

NoFields == Fields(None, None, None)

ToolCall(nm, q, e, f) == [name |-> nm, name_query |-> q, email |-> e, fields |-> f]

Update(q, e, f) == ToolCall("update_user", q, e, f)

Delete(q, e) == ToolCall("delete_user", q, e, NoFields)

Create(f) == ToolCall("create_user", <<>>, None, f)

\* the tool invocations the model can emit under the manifest of the route.
\* Against SeedStore the name query "t" matches one record, "d" matches two,
\* the email "X" is the email of the record "t" matches, "y" is the email of
\* the other record; against EmptyStore no lookup matches.
ToolCalls ==
  { Update(<<"t">>, None, Fields(None, None, Some(30))),
    Update(<<"d">>, None, Fields(None, None, Some(30))),
    Update(<<"d">>, Some(<<"X">>), Fields(Some(<<>>), None, None)),
    Delete(<<"t">>, None),
    Delete(<<"d">>, Some(<<"X">>)),
    Delete(<<"d">>, None),
    Create(Fields(Some(<<"t">>), Some(<<"Y">>), None)),
    Create(Fields(None, Some(<<"z">>), None)) }

\* result.tool_calls of the first model response
ToolCallLists == UNION {[1..n -> ToolCalls] : n \in 0..MaxTools}

\* toolCall.id: unique within a response
CallId(i) == 100 + i

\* a filter object is the set of its <<key, value>> pairs
NoFilters == {}

Parsed(f, sr, un) == [filters |-> f, shouldReset |-> sr, unrelated |-> un]

\* the objects filterParser.parse can return
ParsedOutputs ==
  { Parsed(NoFilters, None, None),
    Parsed(NoFilters, None, Some(TRUE)),
    Parsed({<<"role", {Admin}>>}, None, Some(TRUE)),
    Parsed({<<"role", {Admin}>>}, Some(TRUE), None),
    Parsed({<<"maxAge", <<"4", "0">>>>}, None, None),
    Parsed(NoFilters, Some(FALSE), None) }

(***************************************************************************)
(* State.                                                                  *)
(***************************************************************************)
VARIABLES
  mode,        \* "stream": route.ts, "json": the non-streaming route
  configOk,    \* the API key and the endpoint are set in process.env
  thrown,      \* the awaited calls of this turn that rejected
  pc,          \* position of the POST handler
  message,     \* message of the request
  history,     \* history of the request
  store,       \* the User collection
  nextId,      \* the id the next inserted record gets
  response,    \* the HTTP response of the turn: [kind, status, body]
  channel,     \* the writes on the response stream, in order
  closed,      \* controller.close() was called
  existingRoles, existingDepartments,  \* the vocabulary read in this turn
  messages,    \* the running conversation
  toolCalls,   \* result.tool_calls of the first model response
  tpc,         \* position of each tool execution
  found,       \* users of each tool execution: the ids its find returned
  toolOut,     \* toolOutput of each tool execution
  refresh,     \* refresh of the handler
  faults,      \* number of storage calls of tool handlers that threw
  modelCalls,  \* invocations of the conversational model (invoke, stream)
  extractCalls,\* calls of extractFiltersWithLangChain / parseQueryToFilters
  storageCalls,\* calls made to the storage layer
  chunks,      \* chunks the final model stream yielded
  parsedOutput \* the object filterParser.parse returned in this turn, if any

\* the chat panel (AIChatPanel) and the page that holds the filter state
VARIABLES
  cpc,         \* position of handleSubmit: "idle", "fetch", "reading"
  chat,        \* messages state of the panel
  saved,       \* localStorage item "ai_chat_history" (None when absent)
  request,     \* body of the fetch of the current turn
  buffer,      \* buffer of the read loop
  metadataParsed,
  assistantMessageContent,
  data,        \* the last line JSON.parse returned in the read loop
  status,      \* status state of the panel
  filters,     \* filters state of the page
  refreshKey,  \* refreshKey state of the page
  turns,       \* turns submitted so far
  rd,          \* pieces of the response body reader.read() has returned
  ended        \* how the last turn ended: "done", "error", "unmounted"

\* a call of the lexical extractor on its own
VARIABLES
  query,       \* query of parseQueryToFilters
  vocabulary,  \* existingRoles and existingDepartments of the call
  extracted    \* the filters the call returned (None before it returns)

\* calls of fuzzyMatch on their own
VARIABLES
  candidate,     \* input of the first call
  fuzzyOptions,  \* options of the calls
  matches        \* what the calls returned so far, in order

pvars == <<query, vocabulary, extracted, candidate, fuzzyOptions, matches>>

cvars == <<cpc, chat, saved, request, buffer, metadataParsed,
           assistantMessageContent, data, status, filters, refreshKey, turns,
           rd, ended>>

vars == <<mode, configOk, thrown, pc, message, history, store, nextId, response, channel, closed,
          existingRoles, existingDepartments, messages, toolCalls, tpc, found,
          toolOut, refresh, faults, modelCalls, extractCalls,
          storageCalls, chunks, parsedOutput, cvars, pvars>>

(***************************************************************************)
(* The chat panel and the page: their data.                                *)
(***************************************************************************)
\* strings the panel concatenates are sequences of pieces: the two parts
\* of the JSON text of a line (a read can end inside the text), a newline,
\* or a run of raw text
JsonHead(w) == [piece |-> "head", of |-> w]

JsonTail(w) == [piece |-> "tail", of |-> w]

\* JSON.stringify(w)
JsonText(w) == <<JsonHead(w), JsonTail(w)>>

Newline == [piece |-> "nl", of |-> [kind |-> "content", text |-> "\n", filters |-> {}, shouldReset |-> <<>>, refresh |-> FALSE]]

RawText(t) == [piece |-> "text", of |-> [kind |-> "content", text |-> t, filters |-> {}, shouldReset |-> <<>>, refresh |-> FALSE]]

\* interface Message { role; content }
Message(r, c) == [role |-> r, content |-> c]

\* the initial assistant message of the panel
Greeting == Message("assistant", <<RawText("Hi! I can help you manage users.")>>)

\* messages.slice(-20) of the localStorage effect
SaveWindow == 20

\* messages.slice(-20) of the request body
HistoryWindow == 20

\* s.slice(0, n): the first n turns
SliceFirst(s, n) == IF Len(s) <= n THEN s ELSE SubSeq(s, 1, n)

\* s.slice(-n)
Slice(s, n) == IF Len(s) <= n THEN s ELSE SubSeq(s, Len(s) - n + 1, Len(s))

\* the initial filters state of the page
DefaultFilters ==
  { <<"name", <<>>>>, <<"email", <<>>>>, <<"phone", <<>>>>, <<"role", {}>>,
    <<"department", {}>>, <<"minAge", <<>>>>, <<"maxAge", <<>>>> }

NoRequest == [message |-> "", history |-> <<>>]

\* the panel and the page between two turns, with the messages msgs and
\* the filters f: the localStorage effect has run
PanelIdle(msgs, f) ==
  /\ cpc = "idle"
  /\ chat = msgs
  /\ saved = Some(Slice(msgs, SaveWindow))
  /\ request = NoRequest
  /\ buffer = <<>>
  /\ metadataParsed = FALSE
  /\ assistantMessageContent = <<>>
  /\ data = None
  /\ status = ""
  /\ filters = f
  /\ refreshKey = 0
  /\ turns = 0
  /\ rd = 0
  /\ ended = ""

NoResponse == [kind |-> "none", status |-> 0, body |-> "", filters |-> NoFilters, refresh |-> FALSE]

NoOut == Text("", <<>>)

\* the route before a request
ServerInit ==
  /\ mode \in {"stream", "json"}
  /\ configOk \in BOOLEAN
  /\ thrown = {}
  /\ pc = "idle"
  /\ message = <<>>
  /\ history = <<>>
  /\ store \in SeedStores
  /\ nextId = 1 + Cardinality(LiveIds(store))
  /\ response = NoResponse
  /\ channel = <<>>
  /\ closed = FALSE
  /\ existingRoles = {}
  /\ existingDepartments = {}
  /\ messages = <<>>
  /\ toolCalls = <<>>
  /\ tpc = <<>>
  /\ found = <<>>
  /\ toolOut = <<>>
  /\ refresh = FALSE
  /\ faults = 0
  /\ modelCalls = 0
  /\ extractCalls = 0
  /\ storageCalls = 0
  /\ chunks = 0
  /\ parsedOutput = None

\* no call of the lexical extractor is under way
NoMatching ==
  /\ candidate = <<>>
  /\ fuzzyOptions = {}
  /\ matches = <<>>

NoExtraction ==
  /\ query = <<>>
  /\ vocabulary = [roles |-> {}, departments |-> {}]
  /\ extracted = None
  /\ NoMatching

Init ==
  /\ ServerInit
  /\ PanelIdle(<<Greeting>>, DefaultFilters)
  /\ NoExtraction

(***************************************************************************)
(* The response stream.                                                    *)
(***************************************************************************)
Write(k, t, f, sr, rf) == [kind |-> k, text |-> t, filters |-> f, shouldReset |-> sr, refresh |-> rf]

\* sendStatus(status)
StatusLine(t) == Write("status", t, NoFilters, None, FALSE)

\* the metadata line: { filters: filters || {}, shouldReset, refresh, metadata: true }
MetadataLine(f, sr, rf) == Write("metadata", "", f, sr, rf)

\* a raw text fragment
Content(t) == Write("content", t, NoFilters, None, FALSE)

\* CatchFinally without the finally block
CatchOnly ==
  /\ channel' = Append(channel, Content("Error"))
  /\ closed' = closed
  /\ pc' = "done"

\* the catch and finally blocks of ReadableStream.start
CatchFinally ==
  /\ channel' = Append(channel, Content("Error"))
  /\ closed' = TRUE
  /\ pc' = "done"

\* the JSON response of a handler that returns NextResponse.json
Json(st, b, f, rf) == [kind |-> "json", status |-> st, body |-> b, filters |-> f, refresh |-> rf]

(***************************************************************************)
(* The running conversation.                                               *)
(***************************************************************************)
Msg(t, c, calls, id) == [type |-> t, content |-> c, tool_calls |-> calls, tool_call_id |-> id]

\* historyMessages: user -> HumanMessage, assistant -> AIMessage, any other
\* role -> HumanMessage
HistoryMessage(role) ==
  IF role = "assistant" THEN Msg("ai", Text("history", <<>>), <<>>, 0)
  ELSE Msg("human", Text("history", <<>>), <<>>, 0)

\* [SystemMessage(fullSystemPrompt), ...historyMessages, HumanMessage(message)]
InitialMessages(h, roles, depts) ==
  <<Msg("system", Text("systemPrompt", <<roles, depts>>), <<>>, 0)>>
  \o [k \in 1..Len(h) |-> HistoryMessage(h[k])]
  \o <<Msg("human", Text("message", <<>>), <<>>, 0)>>

\* the AIMessage of the first model response, with its tool_calls
ToolCallMessage(calls) == Msg("ai", Text("", <<>>), [k \in 1..Len(calls) |-> CallId(k)], 0)

\* new ToolMessage({ content: toolOutput, tool_call_id: toolCall.id })
ToolMessage(out, id) == Msg("tool", out, <<>>, id)

OffTopicNote == Msg("system", Text("SYSTEM NOTE: off-topic", <<>>), <<>>, 0)

\* the values of a field that occur in the store: User.distinct(field)
DistinctRoles(st) == {st[id].role : id \in LiveIds(st)} \ {<<>>}

DistinctDepartments(st) == {st[id].department : id \in LiveIds(st)} \ {<<>>}

(***************************************************************************)
(* POST: from the request to the first model invocation.                   *)
(***************************************************************************)
\* return NextResponse.json({ error }, { status }) before any stream exists
Reject(st, err) ==
  /\ response' = Json(st, err, NoFilters, FALSE)
  /\ pc' = "done"
  /\ UNCHANGED <<channel, storageCalls>>

\* the handler goes on past its checks: the streaming route constructs the
\* stream, whose start() writes the first status line and calls connectDB();
\* the non-streaming route calls connectDB()
Begin ==
  /\ storageCalls' = storageCalls + 1
  /\ pc' = "connect"
  /\ IF mode = "stream"
     THEN /\ response' = [NoResponse EXCEPT !.kind = "stream", !.status = 200]
          /\ channel' = Append(channel, StatusLine("Connecting to database..."))
     ELSE UNCHANGED <<response, channel>>

\* Post without the configuration check
PostUnchecked(m, h, bodyOk) ==
  /\ pc = "idle"
  /\ message' = IF bodyOk THEN m ELSE message
  /\ history' = IF bodyOk THEN h ELSE history
  /\ IF ~bodyOk THEN Reject(500, "Failed to process request")
     ELSE IF m = <<>> THEN Reject(400, "Message is required")
     ELSE Begin
  /\ UNCHANGED <<cvars, pvars, parsedOutput, mode, configOk, thrown, store, nextId, closed, existingRoles,
                 existingDepartments, messages, toolCalls, tpc, found, toolOut,
                 refresh, faults, modelCalls, extractCalls, chunks>>

\* POST up to its first await after the checks: request.json(), the message
\* check and the configuration check
Post(m, h, bodyOk) ==
  /\ pc = "idle"
  /\ message' = IF bodyOk THEN m ELSE message
  /\ history' = IF bodyOk THEN h ELSE history
  /\ IF ~bodyOk THEN Reject(500, "Failed to process request")
     ELSE IF m = <<>> THEN Reject(400, "Message is required")
     ELSE IF ~configOk THEN Reject(500, "Azure OpenAI config missing")
     ELSE Begin
  /\ UNCHANGED <<cvars, pvars, parsedOutput, mode, configOk, thrown, store, nextId, closed, existingRoles,
                 existingDepartments, messages, toolCalls, tpc, found, toolOut,
                 refresh, faults, modelCalls, extractCalls, chunks>>

\* what follows the vocabulary reads up to the first model invocation:
\* the messages are built and modelWithTools.invoke(messages) is called
StartInvoke(roles, depts) ==
  /\ existingRoles' = roles
  /\ existingDepartments' = depts
  /\ messages' = InitialMessages(history, roles, depts)
  /\ modelCalls' = modelCalls + 1
  /\ pc' = "invoke1"

\* await connectDB() resolves
ConnectDB ==
  /\ pc = "connect"
  /\ storageCalls' = storageCalls + (IF mode = "stream" THEN 2 ELSE 1)
  /\ pc' = IF mode = "stream" THEN "distinct" ELSE "roles"
  /\ channel' = IF mode = "stream"
                THEN Append(channel, StatusLine("Fetching system metadata..."))
                ELSE channel
  /\ UNCHANGED <<cvars, pvars, parsedOutput, mode, configOk, thrown, message, history, store, nextId, response, closed,
                 existingRoles, existingDepartments, messages, toolCalls, tpc,
                 found, toolOut, refresh, faults, modelCalls,
                 extractCalls, chunks>>

\* await connectDB() rejects: the streaming route reports the error on the
\* stream, the non-streaming route swallows it and goes on with an empty
\* vocabulary
ConnectDBThrows ==
  /\ pc = "connect"
  /\ IF mode = "stream"
     THEN /\ CatchFinally
          /\ UNCHANGED <<existingRoles, existingDepartments, messages, modelCalls>>
     ELSE /\ StartInvoke({}, {})
          /\ UNCHANGED <<channel, closed>>
  /\ thrown' = thrown \cup {"connectDB"}
  /\ UNCHANGED <<cvars, pvars, parsedOutput, mode, configOk, message, history, store, nextId, response, toolCalls, tpc,
                 found, toolOut, refresh, faults, extractCalls,
                 storageCalls, chunks>>

\* streaming route: Promise.all([User.distinct("role"),
\* User.distinct("department")]) resolves
Distinct ==
  /\ pc = "distinct"
  /\ mode = "stream"
  /\ StartInvoke(DistinctRoles(store), DistinctDepartments(store))
  /\ channel' = Append(channel, StatusLine("Analyzing your request..."))
  /\ UNCHANGED <<cvars, pvars, parsedOutput, mode, configOk, thrown, message, history, store, nextId, response, closed,
                 toolCalls, tpc, found, toolOut, refresh, faults,
                 extractCalls, storageCalls, chunks>>

\* streaming route: one of the two reads rejects
DistinctThrows ==
  /\ pc = "distinct"
  /\ mode = "stream"
  /\ CatchFinally
  /\ thrown' = thrown \cup {"distinct"}
  /\ UNCHANGED <<cvars, pvars, parsedOutput, mode, configOk, message, history, store, nextId, response,
                 existingRoles, existingDepartments, messages, toolCalls, tpc,
                 found, toolOut, refresh, faults, modelCalls,
                 extractCalls, storageCalls, chunks>>

\* non-streaming route: existingRoles = await User.distinct("role"); when it
\* resolves the read of the departments is started, when it rejects the
\* vocabulary stays empty
Roles(ok) ==
  /\ pc = "roles"
  /\ mode = "json"
  /\ IF ok
     THEN /\ existingRoles' = DistinctRoles(store)
          /\ storageCalls' = storageCalls + 1
          /\ pc' = "departments"
          /\ UNCHANGED <<existingDepartments, messages, modelCalls>>
     ELSE /\ StartInvoke({}, {})
          /\ UNCHANGED storageCalls
  /\ thrown' = IF ok THEN thrown ELSE thrown \cup {"distinct"}
  /\ UNCHANGED <<cvars, pvars, parsedOutput, mode, configOk, message, history, store, nextId, response, channel,
                 closed, toolCalls, tpc, found, toolOut, refresh, faults,
                 extractCalls, chunks>>

\* non-streaming route: existingDepartments = await User.distinct("department")
Departments(ok) ==
  /\ pc = "departments"
  /\ mode = "json"
  /\ StartInvoke(existingRoles, IF ok THEN DistinctDepartments(store) ELSE {})
  /\ thrown' = IF ok THEN thrown ELSE thrown \cup {"distinct"}
  /\ UNCHANGED <<cvars, pvars, parsedOutput, mode, configOk, message, history, store, nextId, response, channel,
                 closed, toolCalls, tpc, found, toolOut, refresh, faults,
                 extractCalls, storageCalls, chunks>>

(***************************************************************************)
(* The lexical filter extractor (src/lib/parseQueryToFilters.ts, the       *)
(* version the routes import).  A query is a sequence of words, the        *)
(* maximal runs of non-blank characters of the text, separated by single   *)
(* blanks; a word is a sequence of characters.  A regular expression of    *)
(* the source is matched word by word: its first literal may end a word    *)
(* (the expressions are not anchored at a word boundary unless they say    *)
(* \b), the literals after a blank are whole words or, where the           *)
(* expression goes on with anything, the beginning of a word.              *)
(***************************************************************************)
DigitChars == {"0", "1", "2", "3", "4", "5", "6", "7", "8", "9"}

PhoneChars == DigitChars \cup {"+", "-", "(", ")"}

IsNumber(w) == Len(w) > 0 /\ \A k \in 1..Len(w) : w[k] \in DigitChars

IsLetters(w) == Len(w) > 0 /\ \A k \in 1..Len(w) : LowerChar(w[k]) \in Range(LowerLetters)

IsPhoneWord(w) == Len(w) > 0 /\ \A k \in 1..Len(w) : w[k] \in PhoneChars

StartsWith(w, s) == Len(w) >= Len(s) /\ SubSeq(w, 1, Len(s)) = s

EndsWith(w, s) == Len(w) >= Len(s) /\ SubSeq(w, Len(w) - Len(s) + 1, Len(w)) = s

Contains(w, s) == \E off \in 0..(Len(w) - Len(s)) : SubSeq(w, off + 1, off + Len(s)) = s

\* query.toLowerCase(), word by word
LowerQuery(q) == [k \in 1..Len(q) |-> Lower(q[k])]

\* const x = v; ...: the value is computed once and F is applied to it
Bind(v, F(_)) == CHOOSE r \in {F(x) : x \in {v}} : TRUE

\* One element of a word pattern.  kind says how a word matches it:
\* "end": the word ends with a member of set, "word": it is a member,
\* "start": it starts with a member, "number": \d+, "letters": [a-z]+.
\* An optional element may match no word; a capturing element adds the
\* word it matched (<<>> when it matched none) to the captures.
El(kind, set, opt, cap) == [kind |-> kind, set |-> set, opt |-> opt, cap |-> cap]

End(set) == El("end", set, FALSE, FALSE)

Word(set) == El("word", set, FALSE, FALSE)

Opt(set) == El("word", set, TRUE, FALSE)

NumberCap == El("number", {}, FALSE, TRUE)

ElMatches(e, w) ==
  CASE e.kind = "end" -> \E s \in e.set : EndsWith(w, s)
    [] e.kind = "word" -> w \in e.set
    [] e.kind = "start" -> \E s \in e.set : StartsWith(w, s)
    [] e.kind = "number" -> IsNumber(w)
    [] e.kind = "letters" -> IsLetters(w)

NoMatch == [ok |-> FALSE, caps |-> <<>>, at |-> 0, next |-> 0]

\* the match of a word pattern at position p: an optional element takes a
\* word when it can (greedy) and is skipped when the rest does not match
RECURSIVE MatchAt(_, _, _, _)
MatchAt(ws, p, pat, start) ==
  IF pat = <<>> THEN [ok |-> TRUE, caps |-> <<>>, at |-> start, next |-> p]
  ELSE LET e == Head(pat)
           Skip(skip) ==
             IF skip.ok
             THEN [skip EXCEPT !.caps = (IF e.cap THEN << <<>> >> ELSE <<>>) \o @]
             ELSE NoMatch
           Take(take) ==
             IF take.ok
             THEN [take EXCEPT !.caps = (IF e.cap THEN <<ws[p]>> ELSE <<>>) \o @]
             ELSE IF e.opt THEN Bind(MatchAt(ws, p, Tail(pat), start), Skip)
             ELSE NoMatch
       IN Bind(IF p <= Len(ws) /\ ElMatches(e, ws[p])
               THEN MatchAt(ws, p + 1, Tail(pat), start)
               ELSE NoMatch,
               Take)

\* the alternatives of an expression, in the order the engine tries them
RECURSIVE MatchAlts(_, _, _)
MatchAlts(ws, p, alts) ==
  IF alts = <<>> THEN NoMatch
  ELSE Bind(MatchAt(ws, p, Head(alts), p),
            LAMBDA m : IF m.ok THEN m ELSE MatchAlts(ws, p, Tail(alts)))

\* String.prototype.match without the g flag: the leftmost match
RECURSIVE FirstMatchFrom(_, _, _)
FirstMatchFrom(ws, p, alts) ==
  IF p > Len(ws) THEN NoMatch
  ELSE Bind(MatchAlts(ws, p, alts),
            LAMBDA m : IF m.ok THEN m ELSE FirstMatchFrom(ws, p + 1, alts))

FirstMatch(ws, alts) == FirstMatchFrom(ws, 1, alts)

IsOf == {<<"i", "s">>, <<"o", "f">>, <<":">>}

\* /max(?:imum)?\s*(?:age)?\s*(?:is|of|:)?\s*(\d+)/i
MaxAgePattern == << <<End({<<"m", "a", "x">>, <<"m", "a", "x", "i", "m", "u", "m">>}), Opt({<<"a", "g", "e">>}), Opt(IsOf), NumberCap>> >>

\* /min(?:imum)?\s*(?:age)?\s*(?:is|of|:)?\s*(\d+)/i
MinAgePattern == << <<End({<<"m", "i", "n">>, <<"m", "i", "n", "i", "m", "u", "m">>}), Opt({<<"a", "g", "e">>}), Opt(IsOf), NumberCap>> >>

\* /age\s*(?:is|of|:)?\s*(\d+)/i
AgePattern == << <<End({<<"a", "g", "e">>}), Opt(IsOf), NumberCap>> >>

\* /age\s*(?:between|from)?\s*(\d+)\s*(?:and|to|-)\s*(\d+)/i
AgeRangePattern ==
  << <<End({<<"a", "g", "e">>}), Opt({<<"b", "e", "t", "w", "e", "e", "n">>, <<"f", "r", "o", "m">>}), NumberCap, Word({<<"a", "n", "d">>, <<"t", "o">>, <<"-">>}), NumberCap>> >>

\* AgeFilters applying every rule that matches, in the order of the rules
AgeFiltersEveryRule(lq) ==
  Bind(<<FirstMatch(lq, MaxAgePattern), FirstMatch(lq, MinAgePattern),
         FirstMatch(lq, AgePattern), FirstMatch(lq, AgeRangePattern)>>,
       LAMBDA ms :
         (IF ms[1].ok THEN {<<"maxAge", ms[1].caps[1]>>} ELSE {})
         \cup (IF ms[2].ok THEN {<<"minAge", ms[2].caps[1]>>} ELSE {})
         \cup (IF ms[3].ok /\ ~ms[1].ok /\ ~ms[2].ok
               THEN {<<"minAge", ms[3].caps[1]>>, <<"maxAge", ms[3].caps[1]>>} ELSE {}))

\* the age filters: the first rule that matches sets them
AgeFilters(lq) ==
  Bind(<<FirstMatch(lq, MaxAgePattern), FirstMatch(lq, MinAgePattern),
         FirstMatch(lq, AgePattern), FirstMatch(lq, AgeRangePattern)>>,
       LAMBDA ms :
         LET maxAgeMatch == ms[1]
             minAgeMatch == ms[2]
             ageMatch == ms[3]
             ageRangeMatch == ms[4]
         IN IF maxAgeMatch.ok THEN {<<"maxAge", maxAgeMatch.caps[1]>>}
            ELSE IF ageRangeMatch.ok
            THEN {<<"minAge", ageRangeMatch.caps[1]>>, <<"maxAge", ageRangeMatch.caps[2]>>}
            ELSE IF minAgeMatch.ok THEN {<<"minAge", minAgeMatch.caps[1]>>}
            ELSE IF ageMatch.ok THEN {<<"minAge", ageMatch.caps[1]>>, <<"maxAge", ageMatch.caps[1]>>}
            ELSE {})

\* toUpperCase on a one-character string: the result is a string, and for
\* the sharp s it has two characters ("\u00DF".toUpperCase() is "SS")
UpperCase(c) == IF c = "ß" THEN <<"S", "S">> ELSE <<UpperChar(c)>>

\* input.charAt(0).toUpperCase() + input.slice(1).toLowerCase()
Capitalize(w) ==
  IF w = <<>> THEN <<>> ELSE UpperCase(w[1]) \o Lower(SubSeq(w, 2, Len(w)))

Min2(a, b) == IF a <= b THEN a ELSE b

\* one row of the edit distances: prev holds the distances of the first
\* i - 1 characters of a word to every prefix of b, cur those of its first i
\* characters, the last of them c, to the prefixes shorter than j
RECURSIVE EditRow(_, _, _, _, _)
EditRow(prev, cur, c, b, j) ==
  IF j > Len(b) THEN cur
  ELSE Bind(Append(cur, Min2(Min2(prev[j + 1] + 1, cur[j] + 1),
                             prev[j] + (IF c = b[j] THEN 0 ELSE 1))),
            LAMBDA row : EditRow(prev, row, c, b, j + 1))

RECURSIVE EditRows(_, _, _, _)
EditRows(prev, a, b, i) ==
  IF i > Len(a) THEN prev
  ELSE Bind(EditRow(prev, <<i>>, a[i], b, 1),
            LAMBDA row : EditRows(row, a, b, i + 1))

\* the edit distance of two words
EditDistance(a, b) ==
  Bind(<<a, b>>,
       LAMBDA ws : EditRows([j \in 1..(Len(ws[2]) + 1) |-> j - 1], ws[1], ws[2], 1)[Len(ws[2]) + 1])

\* the score of an option for an input, as a fraction num / den: the edit
\* distance of the two, without regard to case, over the length of the
\* longer one
ScoreNum(input, opt) == EditDistance(Lower(input), Lower(opt))

ScoreDen(input, opt) == IF Len(input) >= Len(opt) THEN Len(input) ELSE Len(opt)

\* the options whose score is strictly below threshold / 10 and is the best
BestOptions(input, options, threshold) ==
  {o \in options :
     /\ o # <<>>
     /\ 10 * ScoreNum(input, o) < threshold * ScoreDen(input, o)
     /\ \A other \in options \ {<<>>} :
          ScoreNum(input, o) * ScoreDen(input, other) <= ScoreNum(input, other) * ScoreDen(input, o)}

\* fuzzyMatch(input, options, threshold), threshold in tenths
FuzzyMatch(input, options, threshold) ==
  IF input = <<>> THEN <<>>
  ELSE LET exactMatch == {o \in options : Lower(o) = Lower(input)}
           best == BestOptions(input, options, threshold)
       IN IF exactMatch # {} THEN CHOOSE o \in exactMatch : TRUE
          ELSE IF best # {} THEN CHOOSE o \in best : TRUE
          ELSE Capitalize(input)

RolePattern(keyword, words) == [keyword |-> keyword, words |-> words]

\* commonRolePatterns: each pattern is a set of whole words (\b...\b)
CommonRolePatterns ==
  << RolePattern(<<"D", "e", "v", "e", "l", "o", "p", "e", "r">>, {<<"d", "e", "v", "e", "l", "o", "p", "e", "r">>, <<"d", "e", "v", "e", "l", "o", "p", "e", "r", "s">>, <<"d", "e", "v">>, <<"d", "e", "v", "s">>}),
     RolePattern(<<"M", "a", "n", "a", "g", "e", "r">>, {<<"m", "a", "n", "a", "g", "e", "r">>, <<"m", "a", "n", "a", "g", "e", "r", "s">>, <<"l", "e", "a", "d">>, <<"l", "e", "a", "d", "s">>}),
     RolePattern(<<"D", "e", "s", "i", "g", "n", "e", "r">>, {<<"d", "e", "s", "i", "g", "n", "e", "r">>, <<"d", "e", "s", "i", "g", "n", "e", "r", "s">>, <<"u", "x">>, <<"u", "i">>}),
     RolePattern(<<"E", "n", "g", "i", "n", "e", "e", "r">>, {<<"e", "n", "g", "i", "n", "e", "e", "r">>, <<"e", "n", "g", "i", "n", "e", "e", "r", "s">>, <<"e", "n", "g">>}),
     RolePattern(<<"A", "d", "m", "i", "n">>, {<<"a", "d", "m", "i", "n">>, <<"a", "d", "m", "i", "n", "s">>, <<"a", "d", "m", "i", "n", "i", "s", "t", "r", "a", "t", "o", "r">>, <<"a", "d", "m", "i", "n", "i", "s", "t", "r", "a", "t", "o", "r", "s">>}),
     RolePattern(<<"A", "n", "a", "l", "y", "s", "t">>, {<<"a", "n", "a", "l", "y", "s", "t">>, <<"a", "n", "a", "l", "y", "s", "t", "s">>}),
     RolePattern(<<"D", "i", "r", "e", "c", "t", "o", "r">>, {<<"d", "i", "r", "e", "c", "t", "o", "r">>, <<"d", "i", "r", "e", "c", "t", "o", "r", "s">>, <<"v", "p">>, <<"h", "e", "a", "d">>}),
     RolePattern(<<"O", "w", "n", "e", "r">>, {<<"o", "w", "n", "e", "r">>, <<"o", "w", "n", "e", "r", "s">>, <<"f", "o", "u", "n", "d", "e", "r">>, <<"f", "o", "u", "n", "d", "e", "r", "s">>, <<"c", "e", "o">>}) >>

\* the threshold of the role patterns, in tenths
RoleThreshold == 4

\* \w of a regular expression without the u flag: [A-Za-z0-9_]
IsWordChar(c) == LowerChar(c) \in Range(LowerLetters) \cup DigitChars \cup {"_"}

\* new RegExp(`\\b${value}(?:s|es)?\\b`, 'i').test(query), for a value of one
\* word: the value, with or without a plural ending, occurs in a word of the
\* query, and at each end of the occurrence there is a word boundary, that
\* is a word character on exactly one side (a blank and the end of the
\* query are not word characters)
MentionsValue(lq, value) ==
  \E k \in 1..Len(lq) :
    \E ending \in {<<>>, <<"s">>, <<"e", "s">>} :
      LET w == lq[k]
          occ == Lower(value) \o ending
      IN \E off \in 0..(Len(w) - Len(occ)) :
           /\ SubSeq(w, off + 1, off + Len(occ)) = occ
           /\ (off > 0 /\ IsWordChar(w[off])) # IsWordChar(occ[1])
           /\ (off + Len(occ) < Len(w) /\ IsWordChar(w[off + Len(occ) + 1]))
                # IsWordChar(occ[Len(occ)])

\* roleSet: the keywords of the common patterns that match, passed through
\* fuzzyMatch, and the existing roles the query mentions
RoleSet(lq, roles) ==
  {FuzzyMatch(CommonRolePatterns[n].keyword, roles, RoleThreshold) :
     n \in {n \in 1..Len(CommonRolePatterns) :
              \E k \in 1..Len(lq) : lq[k] \in CommonRolePatterns[n].words}}
  \cup {role \in roles : role # <<>> /\ MentionsValue(lq, role)}

\* deptSet: the existing departments the query mentions
DeptSet(lq, departments) ==
  {dept \in departments : dept # <<>> /\ MentionsValue(lq, dept)}

Verbs == {<<"f", "i", "n", "d">>, <<"s", "h", "o", "w">>, <<"g", "e", "t">>, <<"l", "i", "s", "t">>, <<"s", "e", "a", "r", "c", "h">>}

FilterVerbs == Verbs \cup {<<"f", "i", "l", "t", "e", "r">>}

Users == {<<"u", "s", "e", "r">>, <<"u", "s", "e", "r", "s">>}

\* An alternative of a phone expression: the words before the capture group
\* and whether white space may precede the group inside the capture (\s*
\* before the group) or not (\s+ before it)
PhoneAlt(pat, blank) == [pat |-> pat, blank |-> blank]

PhoneHead == End({<<"p", "h", "o", "n", "e">>, <<"n", "u", "m", "b", "e", "r">>, <<"m", "o", "b", "i", "l", "e">>, <<"c", "e", "l", "l">>})

\* phonePatterns, each with its alternatives in the order they are tried
PhonePatterns ==
  << << PhoneAlt(<<PhoneHead, Word({<<"n", "u", "m", "b", "e", "r">>, <<"i", "s">>, <<":">>})>>, TRUE),
        PhoneAlt(<<PhoneHead>>, TRUE) >>,
     << PhoneAlt(<<End({<<"w", "i", "t", "h">>}), Word({<<"p", "h", "o", "n", "e">>})>>, FALSE),
        PhoneAlt(<<End({<<"p", "h", "o", "n", "e">>}), Word({<<"s", "t", "a", "r", "t">>, <<"s", "t", "a", "r", "t", "s">>}), Word({<<"w", "i", "t", "h">>})>>, FALSE),
        PhoneAlt(<<End({<<"p", "h", "o", "n", "e">>}), Word({<<"n", "u", "m", "b", "e", "r">>, <<"c", "o", "n", "t", "a", "i", "n">>, <<"c", "o", "n", "t", "a", "i", "n", "s">>, <<"h", "a", "s">>})>>, FALSE) >>,
     << PhoneAlt(<<End(FilterVerbs), Opt(Users), Opt({<<"w", "i", "t", "h">>}), Word({<<"p", "h", "o", "n", "e">>})>>, FALSE) >>,
     << PhoneAlt(<<End(FilterVerbs), Opt(Users), Word({<<"p", "h", "o", "n", "e">>}), Word({<<"s", "t", "a", "r", "t">>, <<"s", "t", "a", "r", "t", "s">>}), Word({<<"w", "i", "t", "h">>})>>, TRUE),
        PhoneAlt(<<End(FilterVerbs), Opt(Users), Word({<<"p", "h", "o", "n", "e">>}), Word({<<"c", "o", "n", "t", "a", "i", "n">>, <<"c", "o", "n", "t", "a", "i", "n", "s">>, <<"i", "s">>, <<":">>})>>, TRUE) >>,
     << PhoneAlt(<<End({<<"f", "i", "l", "t", "e", "r">>, <<"p", "h", "o", "n", "e">>}), Word({<<"w", "i", "t", "h">>, <<"i", "s">>, <<":">>})>>, TRUE),
        PhoneAlt(<<End({<<"f", "i", "l", "t", "e", "r">>, <<"p", "h", "o", "n", "e">>})>>, FALSE) >> >>

\* the capture group ([+\d\s\-()]+) from word p on, blanks removed: the
\* words of phone characters that follow
RECURSIVE PhoneRun(_, _)
PhoneRun(ws, p) ==
  IF p <= Len(ws) /\ IsPhoneWord(ws[p]) THEN ws[p] \o PhoneRun(ws, p + 1) ELSE <<>>

\* the match of one alternative at position p: the group needs a character,
\* a phone word or, where the expression allows it, the blank before the
\* next word
PhoneAltAt(ws, p, alt) ==
  Bind(MatchAt(ws, p, alt.pat, p),
       LAMBDA m :
         IF m.ok /\ m.next <= Len(ws) /\ (alt.blank \/ IsPhoneWord(ws[m.next]))
         THEN [ok |-> TRUE, phone |-> PhoneRun(ws, m.next)]
         ELSE [ok |-> FALSE, phone |-> <<>>])

RECURSIVE PhoneAltsAt(_, _, _)
PhoneAltsAt(ws, p, alts) ==
  IF alts = <<>> THEN [ok |-> FALSE, phone |-> <<>>]
  ELSE Bind(PhoneAltAt(ws, p, Head(alts)),
            LAMBDA m : IF m.ok THEN m ELSE PhoneAltsAt(ws, p, Tail(alts)))

\* query.match(pattern) for a phone pattern: match[1] without blanks, <<>>
\* when the pattern does not match
RECURSIVE PhoneMatchFrom(_, _, _)
PhoneMatchFrom(ws, p, alts) ==
  IF p > Len(ws) THEN <<>>
  ELSE Bind(PhoneAltsAt(ws, p, alts),
            LAMBDA m : IF m.ok THEN m.phone ELSE PhoneMatchFrom(ws, p + 1, alts))

\* shortest phone filter
MinPhoneLen == 3

\* the loop over phonePatterns: the first pattern whose capture has at
\* least three characters sets the phone
RECURSIVE PhoneFromPatterns(_, _)
PhoneFromPatterns(lq, n) ==
  IF n > Len(PhonePatterns) THEN <<>>
  ELSE Bind(PhoneMatchFrom(lq, 1, PhonePatterns[n]),
            LAMBDA phoneMatch :
              IF Len(phoneMatch) >= MinPhoneLen THEN phoneMatch
              ELSE PhoneFromPatterns(lq, n + 1))

\* shortest standalone number taken for a phone
MinStandaloneLen == 5

\* /\b(\+?\d{5,})\b/g: the digits of a word of five or more digits, with or
\* without a leading +
StandaloneDigits(w) ==
  IF IsNumber(w) /\ Len(w) >= MinStandaloneLen THEN w
  ELSE IF Len(w) > MinStandaloneLen /\ w[1] = "+" /\ IsNumber(Tail(w)) THEN Tail(w)
  ELSE <<>>

\* /(?:phone|number|mobile|cell|filter|880|8801|88015)/i.test(query)
PhoneContext(lq) ==
  \E k \in 1..Len(lq) :
    \E s \in {<<"p", "h", "o", "n", "e">>, <<"n", "u", "m", "b", "e", "r">>, <<"m", "o", "b", "i", "l", "e">>, <<"c", "e", "l", "l">>, <<"f", "i", "l", "t", "e", "r">>, <<"8", "8", "0">>} : Contains(lq[k], s)

\* the phone filter: <<>> when there is none
Phone(lq) ==
  Bind(<<PhoneFromPatterns(lq, 1), {k \in 1..Len(lq) : StandaloneDigits(lq[k]) # <<>>}>>,
       LAMBDA phones :
         LET fromPatterns == phones[1]
             standalone == phones[2]
         IN IF fromPatterns # <<>> THEN fromPatterns
            ELSE IF standalone # {} /\ PhoneContext(lq)
            THEN StandaloneDigits(lq[CHOOSE k \in standalone : \A j \in standalone : k <= j])
            ELSE <<>>)

\* the words that end the lazy group (.+?): (?:\s+with|\s+in|\s+that|$)
Terminators == {<<"w", "i", "t", "h">>, <<"i", "n">>, <<"t", "h", "a", "t">>}

IsTerminator(w) == \E s \in Terminators : StartsWith(w, s)

\* the last word of the lazy group that starts at word c
RECURSIVE TermEnd(_, _)
TermEnd(lq, c) ==
  IF c >= Len(lq) \/ IsTerminator(lq[c + 1]) THEN c ELSE TermEnd(lq, c + 1)

\* (?!that\b|who\b|whose\b|where\b|roles?\b|departments?\b)
NotAName == {<<"t", "h", "a", "t">>, <<"w", "h", "o">>, <<"w", "h", "o", "s", "e">>, <<"w", "h", "e", "r", "e">>, <<"r", "o", "l", "e">>, <<"r", "o", "l", "e", "s">>, <<"d", "e", "p", "a", "r", "t", "m", "e", "n", "t">>, <<"d", "e", "p", "a", "r", "t", "m", "e", "n", "t", "s">>}

\* searchPatterns: the words before the group (.+?), alternatives in the
\* order they are tried
SearchPatterns ==
  << << <<End(Verbs), Opt(Users), Word({<<"n", "a", "m", "e", "d">>, <<"c", "a", "l", "l", "e", "d">>})>>,
        <<End(Verbs), Opt(Users), Word({<<"w", "i", "t", "h">>}), Word({<<"n", "a", "m", "e">>})>> >>,
     << <<End(Verbs), Opt(Users), Word({<<"w", "i", "t", "h">>}), Word({<<"e", "m", "a", "i", "l">>})>>,
        <<End(Verbs), Opt(Users), Word({<<"e", "m", "a", "i", "l">>})>> >>,
     << <<End(Verbs), Word(Users)>>,
        <<End(Verbs)>> >> >>

\* the match of search pattern i at position p: the group needs a word and,
\* for the generic pattern, a first word that is not excluded
SearchAltAt(lq, p, alt, i) ==
  Bind(MatchAt(lq, p, alt, p),
       LAMBDA m :
         IF m.ok /\ m.next <= Len(lq) /\ (i = 3 => lq[m.next] \notin NotAName)
         THEN [m EXCEPT !.caps = <<m.next, TermEnd(lq, m.next)>>]
         ELSE NoMatch)

RECURSIVE SearchAltsAt(_, _, _, _)
SearchAltsAt(lq, p, alts, i) ==
  IF alts = <<>> THEN NoMatch
  ELSE Bind(SearchAltAt(lq, p, Head(alts), i),
            LAMBDA m : IF m.ok THEN m ELSE SearchAltsAt(lq, p, Tail(alts), i))

RECURSIVE SearchMatchFrom(_, _, _)
SearchMatchFrom(lq, p, i) ==
  IF p > Len(lq) THEN NoMatch
  ELSE Bind(SearchAltsAt(lq, p, SearchPatterns[i], i),
            LAMBDA m : IF m.ok THEN m ELSE SearchMatchFrom(lq, p + 1, i))

\* term.replace(/[.,;]$/, ""): a final period, comma or semicolon is dropped
CleanTerm(term) ==
  LET last == term[Len(term)]
  IN IF Len(last) > 1 /\ last[Len(last)] \in {".", ",", ";"}
     THEN [term EXCEPT ![Len(term)] = SubSeq(last, 1, Len(last) - 1)]
     ELSE term

\* the words of filter descriptions: isFilterDesc
FilterDescWords ==
  {<<"r", "o", "l", "e">>, <<"r", "o", "l", "e", "s">>, <<"d", "e", "p", "a", "r", "t", "m", "e", "n", "t">>, <<"d", "e", "p", "a", "r", "t", "m", "e", "n", "t", "s">>, <<"d", "e", "p", "t">>, <<"d", "e", "p", "t", "s">>, <<"j", "o", "b">>,
   <<"p", "o", "s", "i", "t", "i", "o", "n">>, <<"i", "s">>, <<"a", "r", "e">>, <<"a", "n", "d">>, <<"o", "r">>, <<"t", "h", "a", "t">>, <<"w", "h", "i", "c", "h">>, <<"w", "h", "o", "s", "e">>,
   <<"w", "h", "e", "r", "e">>, <<"u", "s", "e", "r">>, <<"u", "s", "e", "r", "s">>}

\* the loop over searchPatterns from pattern i on: the name or email filter
\* the first matching pattern sets.  term is the matched words of the query.
RECURSIVE SearchFilters(_, _, _, _, _, _)
SearchFilters(q, lq, i, roleSet, deptSet, phone) ==
  IF i > Len(SearchPatterns) THEN {}
  ELSE Bind(SearchMatchFrom(lq, 1, i),
            LAMBDA m :
              IF ~m.ok THEN SearchFilters(q, lq, i + 1, roleSet, deptSet, phone)
              ELSE Bind(<<CleanTerm(SubSeq(q, m.caps[1], m.caps[2])),
                          CleanTerm(SubSeq(lq, m.caps[1], m.caps[2]))>>,
                        LAMBDA terms :
                          LET term == terms[1]
                              lterm == terms[2]
                              isRole == Len(term) = 1 /\ \E r \in roleSet : Lower(r) = lterm[1]
                              isDept == Len(term) = 1 /\ \E d \in deptSet : Lower(d) = lterm[1]
                              hasAt == \E k \in 1..Len(term) : Contains(term[k], <<"@">>)
                              isFilterDesc == \E k \in 1..Len(lterm) : lterm[k] \in FilterDescWords
                          IN IF isRole \/ isDept THEN {}
                             ELSE IF hasAt THEN {<<"email", term>>}
                             ELSE IF i = 3 /\ (roleSet # {} \/ deptSet # {} \/ phone # <<>>) THEN {}
                             ELSE IF i = 3 /\ isFilterDesc THEN {}
                             ELSE {<<"name", term>>}))

ValidFields == {<<"n", "a", "m", "e">>, <<"e", "m", "a", "i", "l">>, <<"a", "g", "e">>, <<"r", "o", "l", "e">>, <<"d", "e", "p", "a", "r", "t", "m", "e", "n", "t">>, <<"c", "r", "e", "a", "t", "e", "d", "A", "t">>}

FieldCap == El("letters", {}, FALSE, TRUE)

OrderCap == El("start", {<<"a", "s", "c">>, <<"d", "e", "s", "c">>}, TRUE, TRUE)

SortVerb == End({<<"s", "o", "r", "t">>, <<"o", "r", "d", "e", "r">>, <<"a", "r", "r", "a", "n", "g", "e">>})

\* sortPatterns, alternatives in the order they are tried
SortPatterns ==
  << << <<SortVerb, Word({<<"b", "y">>, <<"w", "i", "t", "h">>}), FieldCap, OrderCap>>,
        <<SortVerb, Word({<<"a", "c", "c", "o", "r", "d", "i", "n", "g">>}), Word({<<"t", "o">>}), FieldCap, OrderCap>> >>,
     << <<End({<<"s", "h", "o", "w">>, <<"l", "i", "s", "t">>}), Word(Users), Word({<<"s", "o", "r", "t", "e", "d">>, <<"o", "r", "d", "e", "r", "e", "d">>}),
          Word({<<"b", "y">>, <<"w", "i", "t", "h">>}), FieldCap, OrderCap>>,
        <<End({<<"s", "h", "o", "w">>, <<"l", "i", "s", "t">>}), Word(Users), Word({<<"s", "o", "r", "t", "e", "d">>, <<"o", "r", "d", "e", "r", "e", "d">>}),
          Word({<<"a", "c", "c", "o", "r", "d", "i", "n", "g">>}), Word({<<"t", "o">>}), FieldCap, OrderCap>> >> >>

Asc == <<"a", "s", "c">>

Desc == <<"d", "e", "s", "c">>

\* the default direction of a field
DefaultOrder(field) == IF field \in {<<"c", "r", "e", "a", "t", "e", "d", "A", "t">>, <<"a", "g", "e">>} THEN Desc ELSE Asc

\* the loop over sortPatterns from pattern n on: the first pattern that
\* matches with a valid field sets sortBy and sortOrder
RECURSIVE SortFromPatterns(_, _)
SortFromPatterns(lq, n) ==
  IF n > Len(SortPatterns) THEN {}
  ELSE Bind(FirstMatch(lq, SortPatterns[n]),
            LAMBDA m :
              LET field == m.caps[1]
                  order == m.caps[2]
              IN IF m.ok /\ field \in ValidFields
                 THEN { <<"sortBy", field>>,
                        <<"sortOrder", IF order # <<>>
                                       THEN (IF StartsWith(order, Desc) THEN Desc ELSE Asc)
                                       ELSE DefaultOrder(field)>> }
                 ELSE SortFromPatterns(lq, n + 1))

Includes(lq, s) == \E k \in 1..Len(lq) : Contains(lq[k], s)

\* the sort filters: an explicit sort, else the keyword shortcuts
SortFilters(lq) ==
  Bind(SortFromPatterns(lq, 1),
       LAMBDA explicit :
     IF explicit # {} THEN explicit
     ELSE IF Includes(lq, <<"n", "e", "w", "e", "s", "t">>) \/ Includes(lq, <<"l", "a", "t", "e", "s", "t">>)
     THEN {<<"sortBy", <<"c", "r", "e", "a", "t", "e", "d", "A", "t">>>>, <<"sortOrder", Desc>>}
     ELSE IF Includes(lq, <<"o", "l", "d", "e", "s", "t">>)
     THEN {<<"sortBy", <<"c", "r", "e", "a", "t", "e", "d", "A", "t">>>>, <<"sortOrder", Asc>>}
     ELSE IF Includes(lq, <<"y", "o", "u", "n", "g", "e", "s", "t">>)
     THEN {<<"sortBy", <<"a", "g", "e">>>>, <<"sortOrder", Asc>>}
     ELSE {})

\* parseQueryToFilters(query, roles, departments)
ParseQueryToFilters(q, roles, departments) ==
  Bind(LowerQuery(q),
       LAMBDA lq :
         Bind(<<RoleSet(lq, roles), DeptSet(lq, departments), Phone(lq)>>,
              LAMBDA sets :
                LET roleSet == sets[1]
                    deptSet == sets[2]
                    phone == sets[3]
                IN AgeFilters(lq)
                   \cup (IF roleSet # {} THEN {<<"role", roleSet>>} ELSE {})
                   \cup (IF deptSet # {} THEN {<<"department", deptSet>>} ELSE {})
                   \cup (IF phone # <<>> THEN {<<"phone", phone>>} ELSE {})
                   \cup SearchFilters(q, lq, 1, roleSet, deptSet, phone)
                   \cup SortFilters(lq)))

(***************************************************************************)
(* The first model invocation and the tool executions.                     *)
(***************************************************************************)
\* AllDone as a Promise.race: some execution has returned
AnyDone == \E i \in 1..Len(toolCalls) : tpc[i] = "done"

AllDone == \A i \in 1..Len(toolCalls) : tpc[i] = "done"

\* in the streaming route every tool execution is started at once
\* (Promise.all over map), in the non-streaming route one after the other
\* (for ... of with await); a started execution runs to its first await,
\* the connectDB() of its handler
StartedTpc(calls) ==
  [k \in 1..Len(calls) |-> IF mode = "stream" \/ k = 1 THEN "connect" ELSE "wait"]

Started(calls) == IF mode = "stream" THEN Len(calls) ELSE 1

\* await modelWithTools.invoke(messages) resolves with tool_calls = calls
Invoke1(calls) ==
  /\ pc = "invoke1"
  /\ toolCalls' = calls
  /\ IF Len(calls) > 0
     THEN /\ refresh' = TRUE
          /\ messages' = Append(messages, ToolCallMessage(calls))
          /\ tpc' = StartedTpc(calls)
          /\ found' = [k \in 1..Len(calls) |-> <<>>]
          /\ toolOut' = [k \in 1..Len(calls) |-> NoOut]
          /\ storageCalls' = storageCalls + Started(calls)
          /\ pc' = "tools"
          /\ channel' = IF mode = "stream"
                        THEN Append(channel, StatusLine("Executing database tools..."))
                        ELSE channel
          /\ UNCHANGED <<response, extractCalls>>
     ELSE /\ UNCHANGED <<refresh, messages, tpc, found, toolOut, storageCalls, channel>>
          /\ extractCalls' = extractCalls + 1
          /\ IF mode = "stream"
             THEN /\ pc' = "extract"
                  /\ UNCHANGED response
             ELSE /\ pc' = "done"
                  /\ response' = Json(200, "response",
                                      ParseQueryToFilters(message, existingRoles, existingDepartments),
                                      refresh)
  /\ UNCHANGED <<cvars, pvars, parsedOutput, mode, configOk, thrown, message, history, store, nextId, closed, existingRoles,
                 existingDepartments, faults, modelCalls, chunks>>

\* a model invocation of the non-streaming route rejects: the outer catch
\* answers with the error response
JsonError ==
  /\ response' = Json(500, "Failed to process request", NoFilters, FALSE)
  /\ pc' = "done"

\* await modelWithTools.invoke(messages) rejects
Invoke1Throws ==
  /\ pc = "invoke1"
  /\ IF mode = "stream"
     THEN CatchFinally /\ UNCHANGED response
     ELSE JsonError /\ UNCHANGED <<channel, closed>>
  /\ thrown' = thrown \cup {"invoke"}
  /\ UNCHANGED <<cvars, pvars, parsedOutput, mode, configOk, message, history, store, nextId, existingRoles,
                 existingDepartments, messages, toolCalls, tpc, found, toolOut,
                 refresh, faults, modelCalls, extractCalls,
                 storageCalls, chunks>>

\* Return pushing the tool message when the execution returns, in both routes
ReturnPushes(i, out) ==
  /\ toolOut' = [toolOut EXCEPT ![i] = out]
  /\ messages' = Append(messages, ToolMessage(out, CallId(i)))
  /\ IF mode = "json" /\ i < Len(toolCalls)
     THEN /\ tpc' = [tpc EXCEPT ![i] = "done", ![i + 1] = "connect"]
          /\ UNCHANGED <<pc, modelCalls>>
     ELSE IF mode = "json"
     THEN /\ tpc' = [tpc EXCEPT ![i] = "done"]
          /\ pc' = "invoke2"
          /\ modelCalls' = modelCalls + 1
     ELSE /\ tpc' = [tpc EXCEPT ![i] = "done"]
          /\ UNCHANGED <<pc, modelCalls>>

\* the handler of tool execution i returns `out`.  In the non-streaming route
\* the loop body goes on: the tool message is pushed and the next execution
\* is started or, after the last one, the model is invoked again.  In the
\* streaming route the promise of the execution resolves.
Return(i, out) ==
  /\ toolOut' = [toolOut EXCEPT ![i] = out]
  /\ IF mode = "json"
     THEN /\ messages' = Append(messages, ToolMessage(out, CallId(i)))
          /\ IF i < Len(toolCalls)
             THEN /\ tpc' = [tpc EXCEPT ![i] = "done", ![i + 1] = "connect"]
                  /\ UNCHANGED <<pc, modelCalls>>
             ELSE /\ tpc' = [tpc EXCEPT ![i] = "done"]
                  /\ pc' = "invoke2"
                  /\ modelCalls' = modelCalls + 1
     ELSE /\ tpc' = [tpc EXCEPT ![i] = "done"]
          /\ UNCHANGED <<messages, pc, modelCalls>>

\* storage calls started when execution i returns: in the non-streaming
\* route the connectDB() of the next execution
CallsAtReturn(i) == IF mode = "json" /\ i < Len(toolCalls) THEN 1 ELSE 0

\* the string a handler's catch block returns
CaughtError(call, msg) ==
  IF call.name = "create_user" THEN Text("Error creating user", <<msg>>)
  ELSE Text("Error", <<msg>>)

\* the email argument the handler receives: the handlers of the
\* non-streaming route take no email
EmailArg(call) == IF mode = "stream" THEN call.email ELSE None

\* ToolThrows of a handler without try/catch: the error reaches the route
ToolThrowsUncaught(i) ==
  /\ pc = "tools"
  /\ i \in 1..Len(toolCalls)
  /\ tpc[i] \in {"connect", "find", "write", "create"}
  /\ faults < MaxFaults
  /\ faults' = faults + 1
  /\ IF mode = "stream"
     THEN CatchFinally /\ UNCHANGED response
     ELSE JsonError /\ UNCHANGED <<channel, closed>>
  /\ thrown' = thrown \cup {"tool"}
  /\ UNCHANGED <<cvars, pvars, parsedOutput, mode, configOk, message, history, store, nextId,
                 existingRoles, existingDepartments, messages, toolCalls, tpc,
                 found, toolOut, refresh, modelCalls, extractCalls,
                 storageCalls, chunks>>

\* a storage call of execution i (connectDB, find, findByIdAndUpdate,
\* findByIdAndDelete, create) rejects: the handler's catch returns the error
ToolThrows(i) ==
  /\ pc = "tools"
  /\ i \in 1..Len(toolCalls)
  /\ tpc[i] \in {"connect", "find", "write", "create"}
  /\ faults < MaxFaults
  /\ faults' = faults + 1
  /\ Return(i, CaughtError(toolCalls[i], "storage error"))
  /\ storageCalls' = storageCalls + CallsAtReturn(i)
  /\ thrown' = thrown \cup {"tool"}
  /\ UNCHANGED <<cvars, pvars, parsedOutput, mode, configOk, message, history, store, nextId, response, channel,
                 closed, existingRoles, existingDepartments, toolCalls, found,
                 refresh, extractCalls, chunks>>

\* await connectDB() of handler i resolves: the handler calls User.find or
\* User.create
ToolConnect(i) ==
  /\ pc = "tools"
  /\ i \in 1..Len(toolCalls)
  /\ tpc[i] = "connect"
  /\ tpc' = [tpc EXCEPT ![i] = IF toolCalls[i].name = "create_user" THEN "create" ELSE "find"]
  /\ storageCalls' = storageCalls + 1
  /\ UNCHANGED <<cvars, pvars, parsedOutput, mode, configOk, thrown, pc, message, history, store, nextId, response, channel,
                 closed, existingRoles, existingDepartments, messages,
                 toolCalls, found, toolOut, refresh, faults, modelCalls,
                 extractCalls, chunks>>

\* the documents a find returns: id and name of each
Docs(st, ids) == [k \in 1..Len(ids) |-> [id |-> ids[k], name |-> st[ids[k]].name]]

\* handleUpdate / handleDelete: await User.find(query) resolves
ToolFind(i) ==
  /\ pc = "tools"
  /\ i \in 1..Len(toolCalls)
  /\ tpc[i] = "find"
  /\ LET call == toolCalls[i]
         users == Docs(store, FindUsers(store, call.name_query, EmailArg(call)))
     IN /\ found' = [found EXCEPT ![i] = users]
        /\ IF Len(users) = 0
           THEN /\ Return(i, Text("Error: No user found matching",
                                  <<IF Truthy(EmailArg(call)) THEN EmailArg(call)[1]
                                    ELSE call.name_query>>))
                /\ storageCalls' = storageCalls + CallsAtReturn(i)
           ELSE IF Len(users) > 1
           THEN /\ Return(i, Text("Error: Multiple users found",
                                  [k \in 1..Len(users) |-> users[k].name]))
                /\ storageCalls' = storageCalls + CallsAtReturn(i)
           ELSE /\ tpc' = [tpc EXCEPT ![i] = "write"]
                /\ storageCalls' = storageCalls + 1
                /\ UNCHANGED <<toolOut, messages, pc, modelCalls>>
  /\ UNCHANGED <<cvars, pvars, parsedOutput, mode, configOk, thrown, message, history, store, nextId, response, channel,
                 closed, existingRoles, existingDepartments, toolCalls, refresh,
                 faults, extractCalls, chunks>>

\* User.findByIdAndUpdate(id, updates, { new: true, runValidators: true }):
\* the error it throws, "" when it throws none
UpdateError(st, id, updates) ==
  IF ValidationError(updates, FALSE) # "" THEN ValidationError(updates, FALSE)
  ELSE IF st[id].live /\ DuplicateEmail(st, updates, {id}) THEN "E11000 duplicate key"
  ELSE ""

\* UpdateById as an updateMany: every document is updated
UpdateMany(st, id, updates) ==
  [k \in Ids |-> IF st[k].live THEN ApplyFields(st[k], updates) ELSE st[k]]

\* the store after findByIdAndUpdate: a document that no longer exists is
\* not updated (the call returns null)
UpdateById(st, id, updates) ==
  IF st[id].live THEN [st EXCEPT ![id] = ApplyFields(@, updates)] ELSE st

\* the store after findByIdAndDelete
DeleteById(st, id) == [st EXCEPT ![id] = NoRec]

\* handleUpdate: await User.findByIdAndUpdate(users[0]._id, ...) resolves or
\* rejects with a validation or duplicate-key error; then user.name is read
ToolUpdate(i) ==
  /\ pc = "tools"
  /\ i \in 1..Len(toolCalls)
  /\ tpc[i] = "write"
  /\ toolCalls[i].name = "update_user"
  /\ LET id == found[i][1].id
         updates == toolCalls[i].fields
         err == UpdateError(store, id, updates)
     IN IF err # ""
        THEN /\ Return(i, Text("Error", <<err>>))
             /\ UNCHANGED store
        ELSE /\ store' = UpdateById(store, id, updates)
             /\ IF store[id].live
                THEN Return(i, Text("Success: Updated", <<store'[id].name>>))
                ELSE Return(i, Text("Error", <<"Cannot read properties of null">>))
  /\ storageCalls' = storageCalls + CallsAtReturn(i)
  /\ UNCHANGED <<cvars, pvars, parsedOutput, mode, configOk, thrown, message, history, nextId, response, channel, closed,
                 existingRoles, existingDepartments, toolCalls, found, refresh,
                 faults, extractCalls, chunks>>

\* handleDelete: await User.findByIdAndDelete(users[0]._id) resolves; the
\* handler reports the name its find returned
ToolDelete(i) ==
  /\ pc = "tools"
  /\ i \in 1..Len(toolCalls)
  /\ tpc[i] = "write"
  /\ toolCalls[i].name = "delete_user"
  /\ store' = DeleteById(store, found[i][1].id)
  /\ Return(i, Text("Success: Deleted user", <<found[i][1].name>>))
  /\ storageCalls' = storageCalls + CallsAtReturn(i)
  /\ UNCHANGED <<cvars, pvars, parsedOutput, mode, configOk, thrown, message, history, nextId, response, channel, closed,
                 existingRoles, existingDepartments, toolCalls, found, refresh,
                 faults, extractCalls, chunks>>

\* User.create(userData): the error it throws, "" when it throws none
CreateError(st, userData) ==
  IF ValidationError(userData, TRUE) # "" THEN ValidationError(userData, TRUE)
  ELSE IF DuplicateEmail(st, userData, {}) THEN "E11000 duplicate key"
  ELSE ""

\* handleCreate: await User.create(userData) resolves or rejects
ToolCreate(i) ==
  /\ pc = "tools"
  /\ i \in 1..Len(toolCalls)
  /\ tpc[i] = "create"
  /\ LET userData == toolCalls[i].fields
         err == CreateError(store, userData)
     IN IF err # ""
        THEN /\ Return(i, Text("Error creating user", <<err>>))
             /\ UNCHANGED <<store, nextId>>
        ELSE /\ store' = [store EXCEPT ![nextId] = ApplyFields([NoRec EXCEPT !.live = TRUE], userData)]
             /\ nextId' = nextId + 1
             /\ Return(i, Text("Success: Created user",
                               <<store'[nextId].name, store'[nextId].email>>))
  /\ storageCalls' = storageCalls + CallsAtReturn(i)
  /\ UNCHANGED <<cvars, pvars, parsedOutput, mode, configOk, thrown, message, history, response, channel, closed,
                 existingRoles, existingDepartments, toolCalls, found, refresh,
                 faults, extractCalls, chunks>>

(***************************************************************************)
(* After the tools: metadata and the final model invocation.               *)
(***************************************************************************)
\* Finish with the last status line sent after the metadata line
FinishStatusAfterMetadata(msgs, filterResult) ==
  /\ messages' = IF filterResult.unrelated THEN Append(msgs, OffTopicNote) ELSE msgs
  /\ channel' = channel \o
       << MetadataLine(filterResult.filters, filterResult.shouldReset, refresh),
          StatusLine("Generating response...") >>
  /\ modelCalls' = modelCalls + 1
  /\ pc' = "streamOpen"

\* the tail of the streaming route from filterResult on: the off-topic note,
\* the last status line, the metadata line and the call of chatModel.stream
Finish(msgs, filterResult) ==
  /\ messages' = IF filterResult.unrelated THEN Append(msgs, OffTopicNote) ELSE msgs
  /\ channel' = channel \o
       << StatusLine("Generating response..."),
          MetadataLine(filterResult.filters, filterResult.shouldReset, refresh) >>
  /\ modelCalls' = modelCalls + 1
  /\ pc' = "streamOpen"

\* filterResult = null: filters, shouldReset and unrelated are undefined
NullResult == [filters |-> NoFilters, shouldReset |-> None, unrelated |-> FALSE]

\* ToolsJoin calling extractFiltersWithLangChain whatever refresh is
ToolsJoinExtracts ==
  /\ pc = "tools"
  /\ mode = "stream"
  /\ AllDone
  /\ messages' = messages \o [k \in 1..Len(toolCalls) |-> ToolMessage(toolOut[k], CallId(k))]
  /\ extractCalls' = extractCalls + 1
  /\ pc' = "extract"
  /\ UNCHANGED <<cvars, pvars, parsedOutput, mode, configOk, thrown, message, history, store, nextId,
                 response, channel, closed, existingRoles, existingDepartments,
                 toolCalls, tpc, found, toolOut, refresh, faults, modelCalls,
                 storageCalls, chunks>>

\* streaming route: Promise.all over the tool executions resolves; the tool
\* messages are pushed in the order of the invocations and, refresh being
\* true, filter extraction is not called
ToolsJoin ==
  /\ pc = "tools"
  /\ mode = "stream"
  /\ AllDone
  /\ Finish(messages \o [k \in 1..Len(toolCalls) |-> ToolMessage(toolOut[k], CallId(k))],
            NullResult)
  /\ UNCHANGED <<cvars, pvars, parsedOutput, mode, configOk, thrown, message, history, store, nextId, response, closed,
                 existingRoles, existingDepartments, toolCalls, tpc, found,
                 toolOut, refresh, faults, extractCalls, storageCalls,
                 chunks>>

\* ExtractResult returning the extracted fields of an off-topic message
ExtractResultKeepsFilters(parsed) ==
  IF parsed.filters = NoFilters /\ parsed.shouldReset = None /\ parsed.unrelated = None
  THEN NullResult
  ELSE [filters |-> parsed.filters,
        shouldReset |-> Some(parsed.shouldReset = Some(TRUE)),
        unrelated |-> parsed.unrelated = Some(TRUE)]

\* extractFiltersWithLangChain after filterParser.parse returned `parsed`
ExtractResult(parsed) ==
  IF parsed.filters = NoFilters /\ parsed.shouldReset = None /\ parsed.unrelated = None
  THEN NullResult
  ELSE IF parsed.unrelated = Some(TRUE)
  THEN [filters |-> NoFilters, shouldReset |-> Some(FALSE), unrelated |-> TRUE]
  ELSE [filters |-> parsed.filters,
        shouldReset |-> Some(parsed.shouldReset = Some(TRUE)),
        unrelated |-> FALSE]

\* Extract of an extractFiltersWithLangChain without try/catch
ExtractRethrows(ok, parsed) ==
  /\ pc = "extract"
  /\ IF ok
     THEN Finish(messages, ExtractResult(parsed))
     ELSE CatchFinally /\ UNCHANGED <<messages, modelCalls>>
  /\ closed' = IF ok THEN closed ELSE TRUE
  /\ parsedOutput' = IF ok THEN Some(parsed) ELSE None
  /\ thrown' = IF ok THEN thrown ELSE thrown \cup {"extract"}
  /\ UNCHANGED <<cvars, pvars, mode, configOk, message, history, store, nextId, response,
                 existingRoles, existingDepartments, toolCalls, tpc, found,
                 toolOut, refresh, faults, extractCalls, storageCalls,
                 chunks>>

\* streaming route, no tool invocation: await extractFiltersWithLangChain
\* resolves, either with the result of a parsed output or, when its model
\* call or the parse threw, with null
Extract(ok, parsed) ==
  /\ pc = "extract"
  /\ Finish(messages, IF ok THEN ExtractResult(parsed) ELSE NullResult)
  /\ parsedOutput' = IF ok THEN Some(parsed) ELSE None
  /\ thrown' = IF ok THEN thrown ELSE thrown \cup {"extract"}
  /\ UNCHANGED <<cvars, pvars, mode, configOk, message, history, store, nextId, response, closed,
                 existingRoles, existingDepartments, toolCalls, tpc, found,
                 toolOut, refresh, faults, extractCalls, storageCalls,
                 chunks>>

\* await chatModel.stream(messages) resolves
StreamOpen ==
  /\ pc = "streamOpen"
  /\ pc' = "streaming"
  /\ UNCHANGED <<cvars, pvars, parsedOutput, mode, configOk, thrown, message, history, store, nextId, response, channel,
                 closed, existingRoles, existingDepartments, messages,
                 toolCalls, tpc, found, toolOut, refresh, faults,
                 modelCalls, extractCalls, storageCalls, chunks>>

\* the stream yields a chunk: a chunk with content is written, one without
\* is skipped
Chunk(hasContent) ==
  /\ pc = "streaming"
  /\ chunks < MaxChunks
  /\ chunks' = chunks + 1
  /\ channel' = IF hasContent THEN Append(channel, Content("chunk")) ELSE channel
  /\ UNCHANGED <<cvars, pvars, parsedOutput, mode, configOk, thrown, pc, message, history, store, nextId, response, closed,
                 existingRoles, existingDepartments, messages, toolCalls, tpc,
                 found, toolOut, refresh, faults, modelCalls,
                 extractCalls, storageCalls>>

\* chatModel.stream rejects, or the iteration of the stream throws
StreamThrows ==
  /\ pc \in {"streamOpen", "streaming"}
  /\ CatchFinally
  /\ thrown' = thrown \cup {"stream"}
  /\ UNCHANGED <<cvars, pvars, parsedOutput, mode, configOk, message, history, store, nextId, response,
                 existingRoles, existingDepartments, messages, toolCalls, tpc,
                 found, toolOut, refresh, faults, modelCalls,
                 extractCalls, storageCalls, chunks>>

\* the stream ends: the loop is left and finally closes the channel
StreamEnd ==
  /\ pc = "streaming"
  /\ closed' = TRUE
  /\ pc' = "done"
  /\ UNCHANGED <<cvars, pvars, parsedOutput, mode, configOk, thrown, message, history, store, nextId, response, channel,
                 existingRoles, existingDepartments, messages, toolCalls, tpc,
                 found, toolOut, refresh, faults, modelCalls,
                 extractCalls, storageCalls, chunks>>

\* non-streaming route: the second modelWithTools.invoke resolves and the
\* response is returned with filters = {} (refresh is true)
Invoke2 ==
  /\ pc = "invoke2"
  /\ response' = Json(200, "response", IF refresh THEN NoFilters
                                       ELSE ParseQueryToFilters(message, existingRoles, existingDepartments),
                      refresh)
  /\ pc' = "done"
  /\ UNCHANGED <<cvars, pvars, parsedOutput, mode, configOk, thrown, message, history, store, nextId, channel, closed,
                 existingRoles, existingDepartments, messages, toolCalls, tpc,
                 found, toolOut, refresh, faults, modelCalls,
                 extractCalls, storageCalls, chunks>>

\* non-streaming route: the second modelWithTools.invoke rejects
Invoke2Throws ==
  /\ pc = "invoke2"
  /\ JsonError
  /\ thrown' = thrown \cup {"invoke"}
  /\ UNCHANGED <<cvars, pvars, parsedOutput, mode, configOk, message, history, store, nextId, channel, closed,
                 existingRoles, existingDepartments, messages, toolCalls, tpc,
                 found, toolOut, refresh, faults, modelCalls,
                 extractCalls, storageCalls, chunks>>

Next ==
  \/ \E m \in Messages, h \in Histories, bodyOk \in BOOLEAN : Post(m, h, bodyOk)
  \/ ConnectDB
  \/ ConnectDBThrows
  \/ Distinct
  \/ DistinctThrows
  \/ \E ok \in BOOLEAN : Roles(ok)
  \/ \E ok \in BOOLEAN : Departments(ok)
  \/ \E calls \in ToolCallLists : Invoke1(calls)
  \/ Invoke1Throws
  \/ \E i \in 1..MaxTools : ToolThrows(i)
  \/ \E i \in 1..MaxTools : ToolConnect(i)
  \/ \E i \in 1..MaxTools : ToolFind(i)
  \/ \E i \in 1..MaxTools : ToolUpdate(i)
  \/ \E i \in 1..MaxTools : ToolDelete(i)
  \/ \E i \in 1..MaxTools : ToolCreate(i)
  \/ ToolsJoin
  \/ \E ok \in BOOLEAN, parsed \in ParsedOutputs : Extract(ok, parsed)
  \/ StreamOpen
  \/ \E hasContent \in BOOLEAN : Chunk(hasContent)
  \/ StreamThrows
  \/ StreamEnd
  \/ Invoke2
  \/ Invoke2Throws

Spec == Init /\ [][Next]_vars

\* every awaited call eventually settles: the handler does not stop while a
\* step of it is enabled
FairSpec == Spec /\ WF_vars(Next)

(***************************************************************************)
(* Properties of the streaming protocol and of the tool executions.        *)
(***************************************************************************)
Kinds(k) == {j \in 1..Len(channel) : channel[j].kind = k}

HasMetadata == Kinds("metadata") # {}

ExecDone(i) == tpc[i] = "done" /\ toolOut[i] # NoOut

\* position of the tool-call message in the running conversation
ToolCallIndex == Len(history) + 3

\* C1: in streaming mode the metadata line is written before any content
\* byte on every path, the error path included: every content write on the
\* channel is preceded by a metadata write
C1_MetadataBeforeContent ==
  \A k \in Kinds("content") : \E j \in Kinds("metadata") : j < k

\* C2: the writes on the channel are ordered status lines, metadata line,
\* content fragments: no status line and no second metadata line follows the
\* metadata line, and no status or metadata line follows a content fragment
C2_StrictOrder ==
  \A j, k \in 1..Len(channel) :
    j < k =>
      /\ ~(channel[j].kind = "metadata" /\ channel[k].kind \in {"status", "metadata"})
      /\ ~(channel[j].kind = "content" /\ channel[k].kind \in {"status", "metadata"})

C2_Witness ==
  /\ closed
  /\ Kinds("status") # {}
  /\ HasMetadata
  /\ \E k \in Kinds("content") : channel[k].text = "chunk"

\* C3: a turn whose first model response carries a tool invocation never
\* runs filter extraction; the filter object it reports (metadata line or
\* JSON response) is the empty filter and its refresh flag is true
C3_MutationTurnReportsNoFilters ==
  Len(toolCalls) > 0 =>
    /\ extractCalls = 0
    /\ \A k \in Kinds("metadata") :
         channel[k].filters = NoFilters /\ channel[k].refresh = TRUE
    /\ (response.kind = "json" /\ response.status = 200) =>
         (response.filters = NoFilters /\ response.refresh = TRUE)

C3_Witness ==
  /\ Len(toolCalls) > 0
  /\ HasMetadata
  /\ \E i \in 1..Len(toolCalls) : OutcomeTag(toolOut[i]) = "Ambiguous"

\* C4: a step of an update_user or delete_user execution changes the store
\* only when its lookup returned exactly one record, and then no record
\* other than that one changes
C4_OnlyTheResolvedRecordChanges ==
  [][\A i \in 1..Len(toolCalls) :
       ( /\ toolCalls[i].name \in {"update_user", "delete_user"}
         /\ tpc[i] \in {"connect", "find", "write"}
         /\ tpc'[i] # tpc[i] )
       => IF Len(found'[i]) = 1
          THEN \A id \in Ids \ {found'[i][1].id} : store'[id] = store[id]
          ELSE store' = store]_vars

C4_Witness ==
  \E i, j \in 1..Len(toolCalls) :
    /\ toolCalls[i].name = "update_user"
    /\ OutcomeTag(toolOut[i]) = "Ambiguous"
    /\ Len(found[i]) = 2
    /\ toolCalls[j].name = "update_user"
    /\ OutcomeTag(toolOut[j]) = "Success"
    /\ store[found[j][1].id].age = Some(30)

\* C5: the second model invocation does not begin before every tool
\* invocation of the first response has produced its outcome
C5_SecondInvocationAfterAllOutcomes ==
  modelCalls >= 2 => \A i \in 1..Len(toolCalls) : ExecDone(i)

C5_Witness ==
  /\ mode = "stream"
  /\ Len(toolCalls) >= 2
  /\ modelCalls >= 2
  /\ \A i \in 1..Len(toolCalls) : ExecDone(i)

\* C6: once the tools have been executed the running conversation holds the
\* tool-call message followed by exactly one tool message per invocation,
\* in the order of the invocations, each with the id and the outcome of its
\* own invocation
C6_ToolMessagesInInvocationOrder ==
  (Len(toolCalls) > 0 /\ modelCalls >= 2) =>
    /\ Len(messages) = ToolCallIndex + Len(toolCalls)
    /\ messages[ToolCallIndex].type = "ai"
    /\ messages[ToolCallIndex].tool_calls = [k \in 1..Len(toolCalls) |-> CallId(k)]
    /\ \A k \in 1..Len(toolCalls) :
         /\ messages[ToolCallIndex + k].type = "tool"
         /\ messages[ToolCallIndex + k].tool_call_id = messages[ToolCallIndex].tool_calls[k]
         /\ messages[ToolCallIndex + k].content = toolOut[k]

\* the second invocation (a create) finished before the first (a delete):
\* the delete found the record the create inserted into the empty store
C6_Witness ==
  /\ mode = "stream"
  /\ modelCalls >= 2
  /\ Len(toolCalls) = 2
  /\ toolCalls[1].name = "delete_user"
  /\ toolCalls[2].name = "create_user"
  /\ OutcomeTag(toolOut[1]) = "Success"
  /\ OutcomeTag(toolOut[2]) = "Success"
  /\ nextId = 2

\* the awaited calls of the streaming route outside the tool handlers and
\* outside extractFiltersWithLangChain
OuterCalls == {"connectDB", "distinct", "invoke", "stream"}

\* C7: in streaming mode a call that throws once the channel is open makes
\* the error fragment the last write and the channel is closed; nothing is
\* written after the close, a finished turn has closed its channel, and the
\* channel of every opened stream is eventually closed
C7_ErrorFragmentThenClose ==
  /\ []((mode = "stream" /\ thrown \cap OuterCalls # {}) =>
          (closed /\ channel[Len(channel)] = Content("Error")))
  /\ []((response.kind = "stream" /\ pc = "done") => closed)
  /\ [][closed => (closed' /\ channel' = channel)]_vars
  /\ (response.kind = "stream") ~> closed

C7_Witness ==
  /\ "stream" \in thrown
  /\ closed
  /\ HasMetadata
  /\ \E k \in Kinds("content") : channel[k].text = "chunk"

\* C8: with the model credentials or endpoint missing the request ends with
\* an error response and no stream is opened: nothing is written, and no
\* storage call and no model call is made
C8_ConfigurationErrorBeforeStream ==
  ~configOk =>
    /\ channel = <<>>
    /\ response.kind # "stream"
    /\ storageCalls = 0
    /\ modelCalls = 0
    /\ pc = "done" => (response.kind = "json" /\ response.status \in {400, 500})

C8_Witness ==
  /\ ~configOk
  /\ pc = "done"
  /\ message # <<>>
  /\ response = Json(500, "Azure OpenAI config missing", NoFilters, FALSE)

\* the email a create_user invocation asks for is the email of a record
DuplicateCreate(i) ==
  /\ toolCalls[i].name = "create_user"
  /\ toolCalls[i].fields.email # None
  /\ \E id \in Ids : store[id].live /\ store[id].email = Lower(toolCalls[i].fields.email[1])

\* C9: a storage failure of a tool execution (a thrown storage error, a
\* duplicate email, a missing name) becomes the failure outcome of that
\* execution only and does not end the turn: the turn leaves the tool phase
\* only for the second model invocation, with all outcomes produced and, in
\* streaming mode, the metadata line written
C9_ToolFailureDoesNotEndTurn ==
  [][pc = "tools" =>
       /\ pc' \in {"tools", "streamOpen", "invoke2"}
       /\ pc' # "tools" =>
            /\ \A i \in 1..Len(toolCalls) : tpc'[i] = "done"
            /\ modelCalls' = modelCalls + 1
            /\ mode = "stream" => channel'[Len(channel')].kind = "metadata"
       /\ \A i \in 1..Len(toolCalls) :
            ( /\ tpc[i] # "done"
              /\ tpc'[i] = "done"
              /\ \/ faults' > faults
                 \/ tpc[i] = "create" /\ DuplicateCreate(i)
                 \/ tpc[i] = "create" /\ toolCalls[i].fields.name = None )
            => /\ OutcomeTag(toolOut'[i]) = "Failure"
               /\ store' = store
               /\ \A j \in 1..Len(toolCalls) \ {i} : toolOut'[j] = toolOut[j]]_vars

C9_Witness ==
  /\ "tool" \in thrown
  /\ modelCalls >= 2
  /\ mode = "stream" => HasMetadata
  /\ \E i, j \in 1..Len(toolCalls) :
       /\ OutcomeTag(toolOut[i]) = "Failure"
       /\ toolOut[i].args = <<"storage error">>
       /\ OutcomeTag(toolOut[j]) = "Success"

\* C10: when model-assisted filter extraction fails the turn goes on: the
\* metadata line is written with an empty filter object, the final model
\* stream is requested, and no error fragment is written unless that stream
\* fails
C10_ExtractionFailureIsSwallowed ==
  "extract" \in thrown =>
    /\ Cardinality(Kinds("metadata")) = 1
    /\ \A k \in Kinds("metadata") : channel[k].filters = NoFilters
    /\ modelCalls = 2
    /\ pc \in {"streamOpen", "streaming", "done"}
    /\ "stream" \notin thrown => Kinds("content") \subseteq {k \in 1..Len(channel) : channel[k].text = "chunk"}

C10_Witness ==
  /\ "extract" \in thrown
  /\ "stream" \notin thrown
  /\ pc = "done"
  /\ \E k \in Kinds("content") : channel[k].text = "chunk"

(***************************************************************************)
(* The chat panel (handleSubmit) and the page (handleFilterApply).         *)
(***************************************************************************)
MaxTurns == 2

\* the most pieces one reader.read() returns
MaxRead == 2

MaxEarlierTurns == 12

\* the variables of the route a turn of the panel does not reset
sfixed == <<mode, configOk, thrown, message, history, store, nextId,
            existingRoles, existingDepartments, messages, toolCalls, tpc, found,
            toolOut, refresh, faults, modelCalls, extractCalls, storageCalls,
            chunks, parsedOutput>>

svars == <<sfixed, pc, response, channel, closed>>

\* the bytes a write of the route puts on the response body: a line is a
\* JSON text and a newline, the error fragment starts with a newline
Bytes(w) ==
  IF w.kind = "content"
  THEN IF w.text = "Error" THEN <<Newline, RawText("Error")>> ELSE <<RawText(w.text)>>
  ELSE JsonText(w) \o <<Newline>>

RECURSIVE Body(_)
Body(ch) == IF ch = <<>> THEN <<>> ELSE Bytes(Head(ch)) \o Body(Tail(ch))

\* JSON.parse(line): None when it throws
ParseLine(line) ==
  IF Len(line) = 2 /\ line = JsonText(line[1].of) THEN Some(line[1].of) ELSE None

\* handleFilterApply with a reset: the new filters over the initial ones
HandleFilterReplace(prev, newFilters) ==
  {p \in DefaultFilters : \A n \in newFilters : n[1] # p[1]} \cup newFilters

\* handleFilterApply of the page: setFilters(prev => ({ ...prev, ...newFilters }))
HandleFilterApply(prev, newFilters) ==
  {p \in prev : \A n \in newFilters : n[1] # p[1]} \cup newFilters

\* HasNewline looking at the end of the buffer only
HasNewlineAtEnd(b) == b # <<>> /\ b[Len(b)] = Newline

\* buffer.includes("\n")
HasNewline(b) == \E k \in 1..Len(b) : b[k] = Newline

\* buffer.indexOf("\n")
NewlineIndex(b) ==
  CHOOSE k \in 1..Len(b) : b[k] = Newline /\ \A j \in 1..(k - 1) : b[j] # Newline

\* OnLine taking any JSON line for the metadata line
OnLineAnyJson(st, d) ==
  [st EXCEPT !.status = "",
             !.filters = IF d.kind = "metadata" THEN HandleFilterApply(@, d.filters) ELSE @,
             !.refreshKey = IF d.refresh THEN @ + 1 ELSE @,
             !.metadataParsed = TRUE,
             !.data = Some(d)]

\* the inner loop for a line that parsed as d: data.status sets the status,
\* data.metadata applies the filters, triggers the refresh and ends the
\* search for the metadata line
OnLine(st, d) ==
  IF d.kind = "metadata"
  THEN [st EXCEPT !.filters = HandleFilterApply(@, d.filters),
                  !.refreshKey = IF d.refresh THEN @ + 1 ELSE @,
                  !.metadataParsed = TRUE,
                  !.status = "",
                  !.data = Some(d)]
  ELSE [st EXCEPT !.status = IF d.kind = "status" /\ d.text # "" THEN d.text ELSE @,
                  !.data = Some(d)]

\* while (!metadataParsed && buffer.includes("\n")): a line that does not
\* parse is dropped
RECURSIVE Lines(_)
Lines(st) ==
  IF st.metadataParsed \/ ~HasNewline(st.buffer) THEN st
  ELSE Bind(NewlineIndex(st.buffer),
            LAMBDA k :
              Bind(<<[st EXCEPT !.buffer = SubSeq(@, k + 1, Len(@))],
                     ParseLine(SubSeq(st.buffer, 1, k - 1))>>,
                   LAMBDA n : Lines(IF n[2] = None THEN n[1] ELSE OnLine(n[1], n[2][1]))))

\* the setMessages of the read loop: the content of the last message is
\* set when that message is an assistant message
SetLast(msgs, c) ==
  IF msgs[Len(msgs)].role = "assistant"
  THEN [msgs EXCEPT ![Len(msgs)].content = c]
  ELSE msgs

\* input.trim() of the two inputs that are blank
Trim(input) == IF input \in {"", " "} THEN "" ELSE input

ShowText == "Show developers in Sales with age max 40 sorted by age desc"

Inputs == {"", " ", ShowText}

\* the message of a request body, as the route reads it
Words(input) == IF input = ShowText THEN ShowDevelopers ELSE <<>>

\* the roles of the turns of a request's history
RolesOf(h) == [k \in 1..Len(h) |-> h[k].role]

\* the catch and finally blocks of handleSubmit
Catch ==
  /\ chat' = Append(chat, Message("assistant", <<RawText("Error: ")>>))
  /\ saved' = Some(Slice(chat', SaveWindow))
  /\ status' = ""
  /\ cpc' = "idle"
  /\ ended' = "error"

\* Submit without the test of loading
SubmitWhileLoading(input) ==
  /\ Trim(input) # ""
  /\ turns < MaxTurns
  /\ turns' = turns + 1
  /\ chat' = Append(chat, Message("user", <<RawText(input)>>))
  /\ saved' = Some(Slice(chat', SaveWindow))
  /\ request' = [message |-> input, history |-> Slice(chat, HistoryWindow)]
  /\ status' = "Connecting..."
  /\ cpc' = "fetch"
  /\ ended' = ""
  /\ UNCHANGED <<buffer, metadataParsed, assistantMessageContent, data, filters,
                 refreshKey, rd, pvars>>

\* handleSubmit up to the fetch: it returns at once when the input is blank
\* or a turn is loading; otherwise the user message is appended and the
\* request carries the messages of the render the handler belongs to
Submit(input) ==
  /\ cpc = "idle"
  /\ Trim(input) # ""
  /\ turns < MaxTurns
  /\ turns' = turns + 1
  /\ chat' = Append(chat, Message("user", <<RawText(input)>>))
  /\ saved' = Some(Slice(chat', SaveWindow))
  /\ request' = [message |-> input, history |-> Slice(chat, HistoryWindow)]
  /\ status' = "Connecting..."
  /\ cpc' = "fetch"
  /\ ended' = ""
  /\ UNCHANGED <<buffer, metadataParsed, assistantMessageContent, data, filters,
                 refreshKey, rd, pvars>>

\* the response arrives: a response that is not ok throws, otherwise the
\* locals of the read loop are declared and the placeholder is appended
Fetched ==
  /\ cpc = "fetch"
  /\ response.kind # "none"
  /\ IF response.status = 200
     THEN /\ chat' = Append(chat, Message("assistant", <<>>))
          /\ saved' = Some(Slice(chat', SaveWindow))
          /\ cpc' = "reading"
          /\ UNCHANGED <<status, ended>>
     ELSE Catch
  /\ buffer' = <<>>
  /\ metadataParsed' = FALSE
  /\ assistantMessageContent' = <<>>
  /\ data' = None
  /\ rd' = 0
  /\ UNCHANGED <<request, filters, refreshKey, turns, svars, pvars>>

\* fetch rejects
FetchFails ==
  /\ cpc = "fetch"
  /\ Catch
  /\ UNCHANGED <<request, buffer, metadataParsed, assistantMessageContent, data,
                 filters, refreshKey, turns, rd, svars, pvars>>

\* reader.read() returns the next n pieces of the body: they are added to
\* the buffer, the lines are processed until the metadata line is found,
\* and once it is found the buffer is content
Read(n) ==
  /\ cpc = "reading"
  /\ n \in 1..(Len(Body(channel)) - rd)
  /\ rd' = rd + n
  /\ LET st == Lines([buffer |-> buffer \o SubSeq(Body(channel), rd + 1, rd + n),
                      metadataParsed |-> metadataParsed,
                      data |-> data,
                      status |-> status,
                      filters |-> filters,
                      refreshKey |-> refreshKey])
     IN /\ metadataParsed' = st.metadataParsed
        /\ data' = st.data
        /\ status' = st.status
        /\ filters' = st.filters
        /\ refreshKey' = st.refreshKey
        /\ buffer' = IF st.metadataParsed THEN <<>> ELSE st.buffer
        /\ assistantMessageContent' =
             IF st.metadataParsed THEN assistantMessageContent \o st.buffer
             ELSE assistantMessageContent
        /\ chat' = IF st.metadataParsed
                   THEN SetLast(chat, assistantMessageContent \o st.buffer)
                   ELSE chat
  /\ saved' = Some(Slice(chat', SaveWindow))
  /\ UNCHANGED <<cpc, request, turns, ended, svars, pvars>>

\* reader.read() returns done: the loop is left and finally runs
ReadDone ==
  /\ cpc = "reading"
  /\ closed
  /\ rd = Len(Body(channel))
  /\ cpc' = "idle"
  /\ status' = ""
  /\ ended' = "done"
  /\ UNCHANGED <<chat, saved, request, buffer, metadataParsed,
                 assistantMessageContent, data, filters, refreshKey, turns, rd,
                 svars, pvars>>

\* reader.read() rejects: the connection was lost or the stream was aborted
ReadFails ==
  /\ cpc = "reading"
  /\ Catch
  /\ UNCHANGED <<request, buffer, metadataParsed, assistantMessageContent, data,
                 filters, refreshKey, turns, rd, svars, pvars>>

\* clearChat: the effect saves the new messages after removeItem
ClearChat ==
  /\ chat' = <<Greeting>>
  /\ saved' = Some(<<Greeting>>)
  /\ UNCHANGED <<cpc, request, buffer, metadataParsed, assistantMessageContent,
                 data, status, filters, refreshKey, turns, rd, ended, svars, pvars>>

\* the page is loaded anew (the user navigated away and back): a turn under
\* way is abandoned, the messages are those of localStorage, the filters
\* are the initial ones
Mount ==
  /\ chat' = IF saved # None THEN saved[1] ELSE <<Greeting>>
  /\ saved' = Some(Slice(chat', SaveWindow))
  /\ cpc' = "idle"
  /\ status' = ""
  /\ filters' = DefaultFilters
  /\ refreshKey' = 0
  /\ ended' = "unmounted"
  /\ UNCHANGED <<request, buffer, metadataParsed, assistantMessageContent, data,
                 turns, rd, svars, pvars>>

\* the names of the earlier turns of a session
TurnNames == <<"t1", "t2", "t3", "t4", "t5", "t6", "t7", "t8", "t9", "t10",
               "t11", "t12", "t13", "t14">>

\* the messages of a session after n turns that ended normally
EarlierTurns(n) ==
  <<Greeting>> \o
  [i \in 1..(2 * n) |->
     Message(IF i % 2 = 1 THEN "user" ELSE "assistant", <<RawText(TurnNames[(i + 1) \div 2])>>)]

\* sessions of 1 message, of one message less than the window, and of more
\* messages than the window
InitialChats ==
  {<<Greeting>>, EarlierTurns((HistoryWindow \div 2) - 1), EarlierTurns(MaxEarlierTurns)}

\* the filters of the page before the turn: the initial ones, or those an
\* earlier turn has set
InitialFilters ==
  {DefaultFilters, HandleFilterApply(DefaultFilters, {<<"role", {Developer}>>})}

(***************************************************************************)
(* The panel against any response the route can give.                      *)
(***************************************************************************)
\* the metadata lines of the route: of a mutation turn, of a null
\* extraction, of an off-topic message, of extracted filters with and
\* without a reset
MetadataLines ==
  { MetadataLine(NoFilters, None, TRUE),
    MetadataLine(NoFilters, None, FALSE),
    MetadataLine(NoFilters, Some(FALSE), FALSE),
    MetadataLine({<<"maxAge", <<"4", "0">>>>}, Some(FALSE), FALSE),
    MetadataLine({<<"maxAge", <<"4", "0">>>>}, Some(TRUE), FALSE) }

\* the writes of a turn of the streaming route
Streams ==
  { <<StatusLine("Connecting to database..."), m, Content("chunk")>> : m \in MetadataLines }
  \cup { <<StatusLine("Connecting to database..."), Content("Error")>>,
         <<StatusLine("Connecting to database..."), MetadataLine(NoFilters, None, TRUE),
           Content("chunk"), Content("Error")>> }

\* Submit, the request going to a fresh handler
ClientSubmit(input) ==
  /\ Submit(input)
  /\ pc' = "idle"
  /\ response' = NoResponse
  /\ channel' = <<>>
  /\ closed' = FALSE
  /\ UNCHANGED sfixed

\* the route answers the request: with an error response before any
\* stream, or with a stream that it writes and closes
Serve(ok, ch) ==
  /\ cpc = "fetch"
  /\ pc = "idle"
  /\ pc' = "done"
  /\ response' = IF ok THEN [NoResponse EXCEPT !.kind = "stream", !.status = 200]
                 ELSE Json(500, "Azure OpenAI config missing", NoFilters, FALSE)
  /\ channel' = IF ok THEN ch ELSE <<>>
  /\ closed' = ok
  /\ UNCHANGED <<sfixed, cvars, pvars>>

ClientInit ==
  /\ ServerInit
  /\ mode = "stream"
  /\ configOk
  /\ store = SeedStore
  /\ NoExtraction
  /\ \E msgs \in InitialChats, f \in InitialFilters : PanelIdle(msgs, f)

ClientNext ==
  \/ \E input \in Inputs : ClientSubmit(input)
  \/ \E ok \in BOOLEAN, ch \in Streams : Serve(ok, ch)
  \/ Fetched
  \/ FetchFails
  \/ \E n \in 1..MaxRead : Read(n)
  \/ ReadDone
  \/ ReadFails
  \/ ClearChat
  \/ Mount

ClientSpec == ClientInit /\ [][ClientNext]_vars

(***************************************************************************)
(* The panel against the streaming route.                                  *)
(***************************************************************************)
\* Submit, the request not yet received by the route
SystemSubmit(input) ==
  /\ pc = "idle"
  /\ Submit(input)
  /\ UNCHANGED svars

\* the route receives the request the panel sent
Receive ==
  /\ cpc = "fetch"
  /\ Post(Words(request.message), RolesOf(request.history), TRUE)

\* a step of the route while it handles the request
Handle ==
  /\ pc # "idle"
  /\ Next

SystemInit ==
  /\ ServerInit
  /\ mode = "stream"
  /\ NoExtraction
  /\ \E f \in InitialFilters : PanelIdle(<<Greeting>>, f)

\* the connection holds and the user leaves the panel alone during the turn
SystemNext ==
  \/ \E input \in Inputs : SystemSubmit(input)
  \/ Receive
  \/ Handle
  \/ Fetched
  \/ \E n \in 1..MaxRead : Read(n)
  \/ ReadDone

SystemSpec == SystemInit /\ [][SystemNext]_vars

(***************************************************************************)
(* The lexical extractor on its own.                                       *)
(***************************************************************************)
Twenty == <<"2", "0">>
Thirty == <<"3", "0">>
Forty == <<"4", "0">>
Fifty == <<"5", "0">>

\* the ages of the queries "max age a"
Ages == {<<"0">>, <<"7">>, Forty, <<"1", "2", "0">>}

MaxAgeQuery(a) == <<<<"m", "a", "x">>, <<"a", "g", "e">>, a>>

\* phrases that state an age, with the numbers a and b
AgePhrases(a, b) ==
  { <<>>,
    MaxAgeQuery(a),
    <<<<"m", "a", "x", "i", "m", "u", "m">>, a>>,
    <<<<"m", "a", "x">>, <<"a", "g", "e">>, <<"o", "f">>, a>>,
    <<<<"m", "i", "n">>, <<"a", "g", "e">>, a>>,
    <<<<"m", "i", "n", "i", "m", "u", "m">>, <<"a", "g", "e">>, <<"i", "s">>, a>>,
    <<<<"a", "g", "e">>, a>>,
    <<<<"a", "g", "e">>, <<"i", "s">>, a>>,
    <<<<"a", "g", "e">>, <<"b", "e", "t", "w", "e", "e", "n">>, a, <<"a", "n", "d">>, b>>,
    <<<<"a", "g", "e">>, a, <<"t", "o">>, b>>,
    <<a>> }

\* the queries of the calls: an age phrase, two age phrases one after the
\* other, and the query of the end-to-end scenario
Queries ==
  {MaxAgeQuery(a) : a \in Ages}
  \cup {p \o r : p \in AgePhrases(Twenty, Thirty), r \in AgePhrases(Forty, Fifty)}
  \cup {ShowDevelopers}

Vocabularies ==
  { [roles |-> {Developer}, departments |-> {Sales}],
    [roles |-> {}, departments |-> {}] }

\* a caller is about to call parseQueryToFilters(q, roles, departments)
ParserInit ==
  /\ ServerInit
  /\ mode = "json"
  /\ configOk
  /\ store = SeedStore
  /\ PanelIdle(<<Greeting>>, DefaultFilters)
  /\ query \in Queries
  /\ vocabulary \in Vocabularies
  /\ extracted = None
  /\ NoMatching

\* the call returns
Parse ==
  /\ extracted = None
  /\ extracted' = Some(ParseQueryToFilters(query, vocabulary.roles, vocabulary.departments))
  /\ UNCHANGED <<query, vocabulary, candidate, fuzzyOptions, matches, cvars, mode, configOk, thrown, pc, message,
                 history, store, nextId, response, channel, closed,
                 existingRoles, existingDepartments, messages, toolCalls, tpc,
                 found, toolOut, refresh, faults, modelCalls, extractCalls,
                 storageCalls, chunks, parsedOutput>>

ParserNext == Parse

ParserSpec == ParserInit /\ [][ParserNext]_vars

\* the age fields of a filter object
AgeFields(f) == {p \in f : p[1] \in {"minAge", "maxAge"}}

\* C19: the age fields come from exactly one rule, the first that matches
\* in the order max age, age range, min age, bare age, and from no rule
\* after it; in particular the query "max age a" yields maxAge = a and no
\* minAge, for every age a
C19_FirstAgeRuleWins ==
  extracted # None =>
    LET lq == LowerQuery(query)
        max == FirstMatch(lq, MaxAgePattern)
        range == FirstMatch(lq, AgeRangePattern)
        min == FirstMatch(lq, MinAgePattern)
        bare == FirstMatch(lq, AgePattern)
        ages == AgeFields(extracted[1])
    IN /\ max.ok => ages = {<<"maxAge", max.caps[1]>>}
       /\ (~max.ok /\ range.ok) =>
            ages = {<<"minAge", range.caps[1]>>, <<"maxAge", range.caps[2]>>}
       /\ (~max.ok /\ ~range.ok /\ min.ok) => ages = {<<"minAge", min.caps[1]>>}
       /\ (~max.ok /\ ~range.ok /\ ~min.ok /\ bare.ok) =>
            ages = {<<"minAge", bare.caps[1]>>, <<"maxAge", bare.caps[1]>>}
       /\ (~max.ok /\ ~range.ok /\ ~min.ok /\ ~bare.ok) => ages = {}
       /\ \A a \in Ages : query = MaxAgeQuery(a) => ages = {<<"maxAge", a>>}

\* "min age 20 max age 40": the max rule, the min rule and the bare rule
\* match, and the call returned maxAge = 40 alone
C19_Witness ==
  /\ extracted # None
  /\ query = <<<<"m", "i", "n">>, <<"a", "g", "e">>, Twenty>> \o MaxAgeQuery(Forty)
  /\ FirstMatch(LowerQuery(query), MinAgePattern).ok
  /\ FirstMatch(LowerQuery(query), AgePattern).ok
  /\ AgeFields(extracted[1]) = {<<"maxAge", Forty>>}

\* C20: for "Show developers in Sales with age max 40 sorted by age desc"
\* and the vocabulary roles ["Developer"], departments ["Sales"] the call
\* returns exactly role ["Developer"], department ["Sales"], maxAge "40",
\* sortBy "age", sortOrder "desc"
C20_EndToEndScenario ==
  (/\ extracted # None
   /\ query = ShowDevelopers
   /\ vocabulary = [roles |-> {Developer}, departments |-> {Sales}]) =>
    extracted[1] = { <<"role", {Developer}>>, <<"department", {Sales}>>,
                     <<"maxAge", Forty>>, <<"sortBy", <<"a", "g", "e">>>>,
                     <<"sortOrder", <<"d", "e", "s", "c">>>> }

(***************************************************************************)
(* The lexical extractor on queries that name roles, persons and sort      *)
(* fields.                                                                 *)
(***************************************************************************)
\* a role with a character that is not a word character at its end
CSharp == <<"C", "#">>

\* the words that name a role in the queries
RoleWords == {Developer, Admin, <<"a", "d", "m", "i", "n", "s">>, CSharp, <<"c", "#">>}

\* "show a and b"
RoleQueries == {<<<<"s", "h", "o", "w">>, a, <<"a", "n", "d">>, b>> : a, b \in RoleWords}

Daryl == <<"D", "a", "r", "y", "l">>

\* queries that start with a verb of the search patterns
NameQueries ==
  { <<<<"f", "i", "n", "d">>, Daryl>>,
    <<<<"f", "i", "n", "d">>, <<"m", "a", "x">>, <<"a", "g", "e">>, Forty>>,
    <<<<"s", "h", "o", "w">>, <<"u", "s", "e", "r", "s">>, <<"a", "g", "e">>, Thirty>>,
    <<<<"s", "h", "o", "w">>, <<"d", "e", "v", "e", "l", "o", "p", "e", "r", "s">>>>,
    <<<<"f", "i", "n", "d">>, Daryl, <<"i", "n">>, Sales>>,
    <<<<"f", "i", "n", "d">>, <<"u", "s", "e", "r", "s">>, <<"n", "a", "m", "e", "d">>, Daryl, <<"i", "n">>, Sales>>,
    <<<<"s", "h", "o", "w">>, <<"p", "h", "o", "n", "e">>, <<"1", "2", "3", "4", "5">>>> }

\* the field names of a sort as a user writes them
SortFields == ValidFields

Directions == {Asc, Desc, <<"a", "s", "c", "e", "n", "d", "i", "n", "g">>, <<"d", "e", "s", "c", "e", "n", "d", "i", "n", "g">>}

SortBy(f) == <<<<"s", "o", "r", "t">>, <<"b", "y">>, f>>

\* "sort by f" and "sort by f d"
SortQueries ==
  {SortBy(f) : f \in SortFields} \cup {SortBy(f) \o <<d>> : f \in SortFields, d \in Directions}

LexicalVocabularies ==
  { [roles |-> {Developer, Admin}, departments |-> {Sales}],
    [roles |-> {Admin, CSharp}, departments |-> {}],
    [roles |-> {Developer, Admin, CSharp}, departments |-> {Sales}] }

\* a caller is about to call parseQueryToFilters(q, roles, departments)
LexicalInit ==
  /\ ServerInit
  /\ mode = "json"
  /\ configOk
  /\ store = SeedStore
  /\ PanelIdle(<<Greeting>>, DefaultFilters)
  /\ query \in RoleQueries \cup NameQueries \cup SortQueries
  /\ vocabulary \in LexicalVocabularies
  /\ extracted = None
  /\ NoMatching

LexicalSpec == LexicalInit /\ [][ParserNext]_vars

\* the existing roles that are a word of the query, without regard to case
NamedRoles == {r \in vocabulary.roles : \E k \in 1..Len(query) : Lower(query[k]) = Lower(r)}

\* the value of a field of a filter object, None when the field is absent
Field(f, key) == IF \E p \in f : p[1] = key THEN Some((CHOOSE p \in f : p[1] = key)[2]) ELSE None

\* C21: when the query contains two or more distinct roles of the
\* vocabulary, every one of them is in the role set the call returns (the
\* array built from a Set holds no value twice)
C21_EveryNamedRoleIsReturned ==
  (extracted # None /\ Cardinality(NamedRoles) >= 2) =>
    /\ Field(extracted[1], "role") # None
    /\ NamedRoles \subseteq Field(extracted[1], "role")[1]

\* the filters other than name and sort
OtherFilters(f) == {p \in f : p[1] \in {"minAge", "maxAge", "role", "department", "phone", "email"}}

\* only the generic search pattern can match the query
GenericOnly(lq) == ~SearchMatchFrom(lq, 1, 1).ok /\ ~SearchMatchFrom(lq, 1, 2).ok

\* C22: when only the generic "find/show/list ... <text>" pattern can set
\* the name and another filter (age, role, department, phone, email) was
\* extracted, the call returns no name
C22_FallbackSkippedWithOtherFilter ==
  (/\ extracted # None
   /\ GenericOnly(LowerQuery(query))
   /\ OtherFilters(extracted[1]) # {}) =>
    Field(extracted[1], "name") = None

\* C23: "sort by f" yields sortBy = f for every valid field f, with
\* sortOrder desc for createdAt and age and asc for the others; "sort by
\* f d" yields sortBy = f and the direction d
C23_SortByValidField ==
  extracted # None =>
    \A f \in ValidFields :
      /\ query = SortBy(f) =>
           /\ Field(extracted[1], "sortBy") = Some(f)
           /\ Field(extracted[1], "sortOrder") =
                Some(IF f \in {<<"c", "r", "e", "a", "t", "e", "d", "A", "t">>, <<"a", "g", "e">>} THEN Desc ELSE Asc)
      /\ \A d \in Directions :
           query = SortBy(f) \o <<d>> =>
             /\ Field(extracted[1], "sortBy") = Some(f)
             /\ Field(extracted[1], "sortOrder") = Some(IF StartsWith(d, Desc) THEN Desc ELSE Asc)

(***************************************************************************)
(* fuzzyMatch on its own, applied to an input and again to its result.     *)
(***************************************************************************)
\* the inputs of the first call: the empty string, inputs equal to an
\* option up to case, one edit away from an option, far from every option,
\* and inputs whose first character has an upper case of two characters
Candidates ==
  { <<>>, <<"d", "e", "v", "e", "l", "o", "p", "e", "r">>, <<"D", "E", "V", "E", "L", "O", "P", "E", "R">>, <<"D", "e", "v", "e", "l", "o", "p", "r">>, <<"d", "e", "v">>, <<"a", "D", "M", "I", "N">>, <<"x">>,
    <<"ß">>, <<"ß", "e", "t", "a">> }

OptionLists ==
  { {}, {Developer}, {Developer, Admin}, {Developer, <<"d", "e", "v", "e", "l", "o", "p", "e", "r">>}, {Admin, Sales} }

FuzzyInit ==
  /\ ServerInit
  /\ mode = "json"
  /\ configOk
  /\ store = SeedStore
  /\ PanelIdle(<<Greeting>>, DefaultFilters)
  /\ query = <<>>
  /\ vocabulary = [roles |-> {}, departments |-> {}]
  /\ extracted = None
  /\ candidate \in Candidates
  /\ fuzzyOptions \in OptionLists
  /\ matches = <<>>

\* fuzzyMatch(input, options) returns; the second call takes the result of
\* the first as its input
FuzzyCall ==
  /\ Len(matches) < 2
  /\ matches' = Append(matches,
                       FuzzyMatch(IF matches = <<>> THEN candidate ELSE matches[Len(matches)],
                                  fuzzyOptions, RoleThreshold))
  /\ UNCHANGED <<query, vocabulary, extracted, candidate, fuzzyOptions, cvars, mode,
                 configOk, thrown, pc, message, history, store, nextId, response,
                 channel, closed, existingRoles, existingDepartments, messages,
                 toolCalls, tpc, found, toolOut, refresh, faults, modelCalls,
                 extractCalls, storageCalls, chunks, parsedOutput>>

FuzzyNext == FuzzyCall

FuzzySpec == FuzzyInit /\ [][FuzzyNext]_vars

OffTopic == parsedOutput # None /\ parsedOutput[1].unrelated = Some(TRUE)

\* C11: when the extraction classifies the message as off-topic, the
\* metadata line reports empty filters and refresh false whatever other
\* fields the parsed output holds, no tool was executed in the turn, and the
\* off-topic note is the last message of the conversation the final model
\* generation is started with
C11_OffTopicTurn ==
  OffTopic =>
    /\ Kinds("metadata") # {}
    /\ \A k \in Kinds("metadata") :
         channel[k].filters = NoFilters /\ channel[k].refresh = FALSE
    /\ toolCalls = <<>>
    /\ refresh = FALSE
    /\ messages[Len(messages)] = OffTopicNote
    /\ modelCalls = 2

C11_Witness ==
  /\ OffTopic
  /\ parsedOutput[1].filters # NoFilters
  /\ pc = "streaming"
  /\ \E k \in Kinds("content") : channel[k].text = "chunk"

(***************************************************************************)
(* Resolving the target of an update or a delete.                          *)
(***************************************************************************)
\* tool execution i is an update or a delete that was given an email
ByEmail(i) ==
  /\ toolCalls[i].name \in {"update_user", "delete_user"}
  /\ Truthy(EmailArg(toolCalls[i]))

\* the live records whose email equals e, letter case aside
SameEmail(st, e) == {id \in LiveIds(st) : Lower(st[id].email) = Lower(e)}

\* C17: when an email is supplied to update_user or delete_user, the find
\* returns exactly the records whose email equals it case-insensitively,
\* these are at most one (no two live records share an email), and the
\* outcome of the execution is never Ambiguous
C17_EmailLookupIsExact ==
  [][ /\ \A a \in LiveIds(store), b \in LiveIds(store) :
           Lower(store[a].email) = Lower(store[b].email) => a = b
      /\ \A i \in 1..Len(toolCalls) :
           (pc = "tools" /\ ByEmail(i)) =>
             /\ Len(found'[i]) <= 1
             /\ OutcomeTag(toolOut'[i]) # "Ambiguous"
             /\ (tpc[i] = "find" /\ tpc'[i] = "write") =>
                  {found'[i][k].id : k \in 1..Len(found'[i])}
                    = SameEmail(store, EmailArg(toolCalls[i])[1])
             /\ (tpc[i] = "find" /\ tpc'[i] = "write") =>
                  Cardinality(SameEmail(store, EmailArg(toolCalls[i])[1])) = 1
             /\ (tpc[i] = "find" /\ toolOut'[i].text = "Error: No user found matching") =>
                  SameEmail(store, EmailArg(toolCalls[i])[1]) = {} ]_vars

\* an update that named two records and gave the email of one, in other
\* letter case, has updated that record
C17_Witness ==
  /\ pc = "tools"
  /\ \E i \in 1..Len(toolCalls) :
       /\ ByEmail(i)
       /\ toolCalls[i].email = Some(<<"X">>)
       /\ Cardinality({id \in LiveIds(SeedStore) : RegexMatch(toolCalls[i].name_query, SeedStore[id].name)}) = 2
       /\ Len(found[i]) = 1
       /\ OutcomeTag(toolOut[i]) = "Success"

\* C18: when a name lookup matches more than one record, the Ambiguous
\* outcome lists the name and the email of every matching record
C18_AmbiguousReportsNamesAndEmails ==
  [][ \A i \in 1..Len(toolCalls) :
        (/\ pc = "tools"
         /\ tpc[i] = "find"
         /\ OutcomeTag(toolOut'[i]) = "Ambiguous") =>
          LET ids == {id \in LiveIds(store) : RegexMatch(toolCalls[i].name_query, store[id].name)}
          IN /\ Cardinality(ids) > 1
             /\ \A id \in ids :
                  /\ store[id].name \in Range(toolOut'[i].args)
                  /\ store[id].email \in Range(toolOut'[i].args) ]_vars

(***************************************************************************)
(* The panel and the page: filters, history, the read loop.                *)
(***************************************************************************)
\* the keys of a filter object
Keys(f) == {p[1] : p \in f}

\* the read loop has parsed the metadata line
MetadataSeen == data # None /\ data[1].kind = "metadata"

\* the assistant messages of msgs whose content is c
Holding(msgs, c) ==
  {k \in 1..Len(msgs) : msgs[k].role = "assistant" /\ msgs[k].content = c}

\* C12: in a mutation turn (the route executed tools: refresh is true) no
\* step of the panel changes the filters of the page, and when the turn has
\* completed the metadata line was applied and the refresh was triggered
\* once
C12_MutationTurnKeepsFilters ==
  [][ /\ refresh => filters' = filters
      /\ (refresh' /\ ended' = "done") =>
           /\ MetadataSeen'
           /\ data'[1].filters = NoFilters
           /\ refreshKey' = 1
           /\ filters' \in InitialFilters ]_vars

\* a delete succeeded, the turn completed, and the page still has the role
\* filter it had before the turn
C12_Witness ==
  /\ ended = "done"
  /\ refresh
  /\ \E i \in 1..Len(toolCalls) : toolOut[i].text = "Success: Deleted user"
  /\ filters = HandleFilterApply(DefaultFilters, {<<"role", {Developer}>>})
  /\ refreshKey = 1
  /\ assistantMessageContent # <<>>

\* C13: when the panel applies the metadata line, the filters of the page
\* become the new filters over the initial ones if shouldReset is true
\* (fields absent from the new filters are cleared), and the new filters
\* over the prior ones if shouldReset is false or absent
C13_ResetReplacesElseMerges ==
  [][ (cpc = "reading" /\ ~MetadataSeen /\ MetadataSeen') =>
        LET new == data'[1].filters
            base == IF data'[1].shouldReset = Some(TRUE) THEN DefaultFilters ELSE filters
        IN filters' = {p \in base : p[1] \notin Keys(new)} \cup new ]_vars

\* C14: when a read fails or the page is left after assistant content was
\* received, the message that holds this partial content is removed from
\* the messages
C14_PartialContentIsDiscarded ==
  [][ (/\ cpc = "reading"
       /\ assistantMessageContent # <<>>
       /\ Holding(chat, assistantMessageContent) # {}
       /\ ended' \in {"error", "unmounted"}) =>
        Cardinality(Holding(chat', assistantMessageContent))
          < Cardinality(Holding(chat, assistantMessageContent)) ]_vars

C16_NoContentBeforeMetadata ==
  (cpc = "reading" /\ ~MetadataSeen) =>
    /\ assistantMessageContent = <<>>
    /\ chat[Len(chat)] \in {Message("assistant", <<>>), Greeting}

\* the error fragment arrived with no metadata line before it
C16_Witness ==
  /\ cpc = "reading"
  /\ ~MetadataSeen
  /\ data # None
  /\ rd = Len(Body(channel))
  /\ RawText("Error") \in Range(buffer)
  /\ chat[Len(chat)] = Message("assistant", <<>>)

(***************************************************************************)
(* The model invocations of a turn.                                        *)
(***************************************************************************)
\* the turn ended after the first model response arrived, and no call that
\* ends the turn when it rejects did reject
TurnCompleted ==
  /\ pc = "done"
  /\ modelCalls >= 1
  /\ thrown \cap {"connectDB", "distinct", "invoke", "stream"} = {}

\* C25: in a turn that runs to its end the conversational model is invoked
\* exactly once when its first response carries no tool invocation, and
\* exactly twice, with every tool execution finished before the second
\* invocation, when it carries tool invocations
C25_InvocationsFollowTheStateMachine ==
  TurnCompleted =>
    /\ toolCalls = <<>> => modelCalls = 1
    /\ toolCalls # <<>> =>
         /\ modelCalls = 2
         /\ \A i \in 1..Len(toolCalls) : ExecDone(i)

(***************************************************************************)
(* Tool executions of one turn that resolve to the same record.            *)
(***************************************************************************)
\* execution i returns a Success outcome in this step
ReturnsSuccess(i) ==
  /\ toolOut[i] = NoOut
  /\ toolOut'[i] # NoOut
  /\ OutcomeTag(toolOut'[i]) = "Success"

\* C26: an update_user or delete_user execution returns Success only in a
\* step in which the record its lookup resolved to still exists, so that the
\* operation takes effect on it; a delete_user returns Success only if it
\* removed the record
C26_SuccessOnlyOnExistingRecord ==
  [][\A i \in 1..Len(toolCalls) :
       (toolCalls[i].name \in {"update_user", "delete_user"} /\ ReturnsSuccess(i)) =>
         /\ store[found[i][1].id].live
         /\ toolCalls[i].name = "delete_user" => ~store'[found[i][1].id].live]_vars

(***************************************************************************)
(* The refresh signal of a turn that changed the store.                    *)
(***************************************************************************)
\* a tool execution of the turn reported a committed create, update or
\* delete
Committed == \E i \in 1..Len(toolCalls) : ExecDone(i) /\ OutcomeTag(toolOut[i]) = "Success"

\* the response of the turn tells the caller to refresh: the metadata line
\* of the stream, or the body of the JSON response
RefreshSignalled ==
  IF mode = "stream"
  THEN \E j \in Kinds("metadata") : channel[j].refresh
  ELSE response.refresh

\* C27: when the turn has ended and one of its tool executions committed a
\* create, update or delete, the response signals refresh = true, also when
\* the model invocation after the tool executions failed
C27_CommittedTurnSignalsRefresh ==
  (pc = "done" /\ Committed) => RefreshSignalled

(***************************************************************************)
(* One turn at a time.                                                     *)
(***************************************************************************)
\* a user message is appended to the messages of the panel in this step
UserMessageAppended ==
  /\ Len(chat') = Len(chat) + 1
  /\ chat'[Len(chat')].role = "user"

\* C28: while a turn is loading no step starts a request or appends a user
\* message (a submit made then returns at once), and when a turn ends, by
\* completion or by error, loading is cleared, so that a later submit is
\* accepted
C28_OneTurnAtATime ==
  [][ /\ cpc # "idle" =>
           /\ request' = request
           /\ turns' = turns
           /\ ~UserMessageAppended
      /\ ended' \in {"done", "error"} => cpc' = "idle" ]_vars

\* a turn ended with an error, and the submit made after it was accepted:
\* its request is under way
C28_Witness ==
  /\ turns = 2
  /\ cpc = "fetch"
  /\ Len(chat) >= 3
  /\ chat[Len(chat)].role = "user"
  /\ chat[Len(chat) - 1] = Message("assistant", <<RawText("Error: ")>>)
  /\ request.history = Slice(SubSeq(chat, 1, Len(chat) - 1), HistoryWindow)

(***************************************************************************)
(* The read loop against every split of the response body.                 *)
(***************************************************************************)
\* the positions of body at which a metadata line ends (its newline)
MetadataEnds(body) ==
  {k \in 3..Len(body) :
     /\ body[k] = Newline
     /\ body[k - 1].piece = "tail"
     /\ body[k - 1].of.kind = "metadata"
     /\ body[k - 2] = JsonHead(body[k - 1].of)}

\* the newline of the first metadata line of body
MetadataEnd(body) == CHOOSE k \in MetadataEnds(body) : \A j \in MetadataEnds(body) : k <= j

\* C29: however the reads split the body, when the stream of a response
\* with a metadata line has been read to its end the content of the
\* assistant message is the bytes after the newline of the metadata line,
\* in order, each once; the filters and the refresh of the metadata line are
\* applied in the read that completes the line and in no other
C29_ContentIsTheBytesAfterMetadata ==
  [][ /\ (cpc = "reading" /\ ended' = "done" /\ MetadataEnds(Body(channel)) # {}) =>
           /\ metadataParsed
           /\ assistantMessageContent =
                SubSeq(Body(channel), MetadataEnd(Body(channel)) + 1, Len(Body(channel)))
           /\ Len(chat) > 1 => chat[Len(chat)] = Message("assistant", assistantMessageContent)
      /\ (cpc = "reading" /\ cpc' = "reading") =>
           IF ~metadataParsed /\ metadataParsed'
           THEN LET m == Body(channel)[MetadataEnd(Body(channel)) - 1].of
                IN /\ rd < MetadataEnd(Body(channel))
                   /\ rd' >= MetadataEnd(Body(channel))
                   /\ filters' = HandleFilterApply(filters, m.filters)
                   /\ refreshKey' = refreshKey + (IF m.refresh THEN 1 ELSE 0)
           ELSE /\ filters' = filters
                /\ refreshKey' = refreshKey ]_vars

\* a stream whose content is a chunk and the error fragment was read to its
\* end: the message holds the chunk, the newline and the error text, and the
\* refresh of the metadata line was triggered once
C29_Witness ==
  /\ ended = "done"
  /\ turns = 1
  /\ MetadataEnds(Body(channel)) # {}
  /\ assistantMessageContent = <<RawText("chunk"), Newline, RawText("Error")>>
  /\ chat[Len(chat)] = Message("assistant", assistantMessageContent)
  /\ refreshKey = 1

(***************************************************************************)
(* A failure of the route before the metadata line.                        *)
(***************************************************************************)
\* the route wrote its error fragment and no metadata line
FailedBeforeMetadata ==
  /\ MetadataEnds(Body(channel)) = {}
  /\ \E j \in 1..Len(channel) : channel[j] = Content("Error")

\* the message shows an error text
ShowsError(msg) ==
  /\ msg.role = "assistant"
  /\ \E n \in 1..Len(msg.content) : msg.content[n] \in {RawText("Error"), RawText("Error: ")}

\* C30: when the route failed before its metadata line and the panel has
\* read the stream to its end, the last message of the panel shows the
\* error text: the turn does not end with an empty assistant message and no
\* error
C30_ServerErrorIsSurfaced ==
  [][ (cpc = "reading" /\ ended' = "done" /\ FailedBeforeMetadata) =>
        ShowsError(chat'[Len(chat')]) ]_vars

====
